---- MODULE Spec2Model ----
(***************************************************************************)
(* Model of the vertopal-js client engine.                                 *)
(*                                                                         *)
(*   SpecSend : one Interface.sendRequest call (retry loop, backoff,      *)
(*              JSON decoding, ExceptionHandler.raiseForResponse).         *)
(*   Spec     : Conversion workflows created by Converter.convert and      *)
(*              driven by the caller (wait, done, successful, download).   *)
(*   FairSpec : Spec plus the fairness that awaited promises settle.       *)
(*   SpecChunk: one StreamChunker.process call over a finite source.       *)
(*   SpecError: the calls made on one ErrorWrapper.                        *)
(***************************************************************************)
EXTENDS Integers, Sequences, FiniteSets, TLC

VARIABLES
    \* ---- Interface.sendRequest (one call) ----
    retries,      \* Config.get('connectionSettings', 'retries')
    attempt,      \* loop variable of sendRequest
    spc,          \* position of the call: loop, fetch, json, backoff, returned, threw
    waits,        \* backoff waits made so far, in ms, in order
    fetches,      \* outcome of every HTTP attempt made so far, in order
    outcome,      \* what reached the caller: a result or a failure
    sendArgs,     \* arguments of the call: endpoint and timeout
    timers,       \* deadline armed for every HTTP attempt made so far, in ms
    aborts,       \* per HTTP attempt: its abort timer and its AbortController
    \* ---- Conversion workflows ----
    wf,           \* per workflow instance: fields, position, observations
    \* ---- StreamChunker (one process() call) ----
    chunker,      \* source elements left, buffer, emitted chunks, position
    \* ---- ErrorWrapper (one method call) ----
    call,         \* the argument, the method or function applied and its result
    \* ---- Credential and Config ----
    credential,   \* _app and _token of the Credential under construction or built
    config        \* Config._overrides, and what Config has assigned elsewhere

vars == <<retries, attempt, spc, waits, fetches, outcome, sendArgs, timers, aborts, wf, chunker, call,
          credential, config>>
sendVars == <<retries, attempt, spc, waits, fetches, outcome, sendArgs, timers, aborts>>
\* what no step of sendRequest changes, and what no step of a workflow changes
sendFrame == <<sendArgs, wf, chunker, call, credential, config>>
wfFrame == <<sendVars, chunker, call, credential, config>>

(***************************************************************************)
(* Bounds                                                                  *)
(***************************************************************************)
MaxRetries == 3
CountCap == 4

(***************************************************************************)
(* JSON values: objects, strings and null, tagged with their typeof        *)
(***************************************************************************)
Null == [t |-> "null"]
Undefined == [t |-> "undefined"]
NumV(n) == [t |-> "number", nan |-> FALSE, n |-> n]
NaN == [t |-> "number", nan |-> TRUE, n |-> 0]
JsBool(b) == [t |-> "boolean", b |-> b]
Str(s) == [t |-> "string", s |-> s]
Obj(f) == [t |-> "object", f |-> f]
EmptyObj == Obj([k \in {} |-> Null])
Field(k, v) == [x \in {k} |-> v]

\* typeof v === 'object' (true of null as well)
TypeofObject(v) == v.t \in {"object", "null"}

\* JavaScript truthiness of a JSON value
Truthy(v) ==
    CASE v.t = "object" -> TRUE
      [] v.t = "string" -> v.s # ""
      [] v.t = "number" -> ~v.nan /\ v.n # 0
      [] v.t = "boolean" -> v.b
      [] OTHER -> FALSE

\* obj?.key  (undefined is rendered as Null: both are falsy and nullish)
Prop(v, key) ==
    IF v.t = "object" /\ key \in DOMAIN v.f THEN v.f[key] ELSE Null

RECURSIVE getByPath(_, _)
getByPath(data, path) ==
    IF path = <<>> THEN data
    ELSE IF data.t = "object"
         THEN IF Head(path) \in DOMAIN data.f
              THEN getByPath(data.f[Head(path)], Tail(path))
              ELSE Null
         ELSE Null

errorPaths_RootLast ==
    << <<"error">>, <<"result", "error">>,
       <<"result", "output", "result", "error">>, <<>> >>

errorPaths_ResultFirst ==
    << <<>>, <<"result", "error">>, <<"error">>,
       <<"result", "output", "result", "error">> >>

errorPaths ==
    << <<>>, <<"error">>, <<"result", "error">>,
       <<"result", "output", "result", "error">> >>

warningPaths ==
    << <<"warning">>, <<"result", "warning">>, <<"result", "output", "warning">>,
       <<"result", "output", "result", "warning">> >>

BearsCodeOrMessage_CodeOnly(err) == TypeofObject(err) /\ Truthy(Prop(err, "code"))

\* typeof err === 'object' && (err?.code || err?.message)
BearsCodeOrMessage(err) ==
    TypeofObject(err) /\ (Truthy(Prop(err, "code")) \/ Truthy(Prop(err, "message")))

hasError(response) ==
    \E i \in 1..Len(errorPaths) : BearsCodeOrMessage(getByPath(response, errorPaths[i]))

getError(response) ==
    IF hasError(response)
    THEN LET i == CHOOSE j \in 1..Len(errorPaths) :
                    /\ BearsCodeOrMessage(getByPath(response, errorPaths[j]))
                    /\ \A k \in 1..(j-1) :
                          ~BearsCodeOrMessage(getByPath(response, errorPaths[k]))
         IN getByPath(response, errorPaths[i])
    ELSE EmptyObj

\* getError().code ?? 'UNKNOWN_ERROR'
getErrorCode(response) ==
    LET c == Prop(getError(response), "code")
    IN IF c.t = "null" THEN Str("UNKNOWN_ERROR") ELSE c

\* getError().message ?? 'No error message available.'
getErrorMessage(response) ==
    LET m == Prop(getError(response), "message")
    IN IF m.t = "null" THEN Str("No error message available.") ELSE m

hasWarning(response) ==
    \E i \in 1..Len(warningPaths) : BearsCodeOrMessage(getByPath(response, warningPaths[i]))

\* the first warning only
getWarnings_First(response) ==
    LET found == SelectSeq([i \in 1..Len(warningPaths) |-> getByPath(response, warningPaths[i])],
                           BearsCodeOrMessage)
    IN IF found = <<>> THEN <<>> ELSE <<Head(found)>>

\* getWarnings: the objects found at the warning paths, in path order
getWarnings(response) ==
    SelectSeq([i \in 1..Len(warningPaths) |-> getByPath(response, warningPaths[i])],
              BearsCodeOrMessage)

(***************************************************************************)
(* Error taxonomy                                                          *)
(***************************************************************************)
ERROR_CODE_MAP ==
    [ INTERNAL_SERVER_ERROR |-> "InternalServerError",
      NOT_FOUND |-> "NotFoundError",
      POST_METHOD_ALLOWED |-> "PostMethodAllowedError",
      MISSING_AUTHORIZATION_HEADER |-> "MissingAuthorizationHeaderError",
      INVALID_AUTHORIZATION_HEADER |-> "InvalidAuthorizationHeaderError",
      INVALID_FIELD |-> "InvalidFieldError",
      MISSING_REQUIRED_FIELD |-> "MissingRequiredFieldError",
      WRONG_TYPE_FIELD |-> "WrongTypeFieldError",
      INVALID_DATA_KEY |-> "InvalidDataKeyError",
      MISSING_REQUIRED_DATA_KEY |-> "MissingRequiredDataKeyError",
      WRONG_TYPE_DATA_KEY |-> "WrongTypeDataKeyError",
      WRONG_VALUE_DATA_KEY |-> "WrongValueDataKeyError",
      INVALID_CREDENTIAL |-> "InvalidCredentialError",
      FREE_PLAN_DISALLOWED |-> "FreePlanDisallwedError",
      INSUFFICIENT_VCREDITS |-> "InsufficentVCreditsError",
      INVALID_CALLBACK |-> "InvalidCallbackError",
      UNVERIFIED_DOMAIN_CALLBACK |-> "UnverifiedDomainCallbackError",
      NO_CONNECTOR_DEPENDENT_TASK |-> "NoConnectorDependentTaskError",
      NOT_READY_DEPENDENT_TASK |-> "NotReadyDependentTaskError",
      MISMATCH_VERSION_DEPENDENT_TASK |-> "MismatchVersionDependentTaskError",
      MISMATCH_DEPENDENT_TASK |-> "MismatchDependentTaskError",
      FILE_NOT_EXISTS |-> "FileNotExistsError",
      DOWNLOAD_EXPIRED |-> "DownloadExpiredError",
      ONLY_DEVELOPMENT_REQUEST |-> "OnlyDevelopmentRequestError",
      INVALID_PARAMETER |-> "InvalidParameterError",
      MISSING_REQUIRED_PARAMETER |-> "MissingRequiredParameterError",
      WRONG_TYPE_PARAMETER |-> "WrongTypeParameterError",
      WRONG_VALUE_PARAMETER |-> "WrongValueParameterError",
      ONLY_DEVELOPMENT_FILE |-> "OnlyDevelopmentFileError",
      NOT_VALID_EXTENSION |-> "NotValidExtensionError",
      LIMIT_UPLOAD_SIZE |-> "LimitUploadSizeError",
      EMPTY_FILE |-> "EmptyFileError",
      WRONG_OUTPUT_FORMAT_STRUCTURE |-> "WrongOutputFormatStructureError",
      INVALID_OUTPUT_FORMAT |-> "InvalidOutputFormatError",
      WRONG_INPUT_FORMAT_STRUCTURE |-> "WrongInputFormatStructureError",
      INVALID_INPUT_FORMAT |-> "InvalidInputFormatError",
      NO_CONVERTER_INPUT_TO_OUTPUT |-> "NoConverterInputToOutputError",
      NOT_MATCH_EXTENSION_AND_INPUT |-> "NotMatchExtensionAndInputError",
      TOO_MANY_REQUESTS |-> "TooManyRequestsError",
      FREE_APP_LIMITED |-> "FreeAppLimitedError",
      DISABLED_FOR_FREE_APP |-> "DisabledForFreeAppError",
      WRONG_FORMAT_STRUCTURE |-> "WrongFormatStructureError",
      INVALID_FORMAT |-> "InvalidFormatError",
      FAILED_CONVERT |-> "FailedConvertError" ]

\* the classes declared `extends APIError`
APIErrorSubclasses == { ERROR_CODE_MAP[c] : c \in DOMAIN ERROR_CODE_MAP }

\* the `extends` clause of every exception class; Error and the built-in
\* errors (TypeError, SyntaxError, AbortError) have no parent in the package
ParentClass(cls) ==
    CASE cls \in APIErrorSubclasses -> "APIError"
      [] cls = "APIError" -> "APIResponseError"
      [] cls = "InvalidJSONResponseError" -> "APIResponseError"
      [] cls = "HTTPResponseError" -> "APIResponseError"
      [] cls = "APIResponseError" -> "APIException"
      [] cls = "NetworkConnectionError" -> "APIException"
      [] cls = "OtherError" -> "APIException"
      [] cls = "InputNotFoundError" -> "APIException"
      [] cls = "OutputWriteError" -> "APIException"
      [] cls = "APITaskError" -> "APIException"
      [] cls = "EntityStatusNotRunningError" -> "APITaskError"
      [] cls = "APIException" -> "Error"
      [] OTHER -> "Error"

RECURSIVE InstanceOf(_, _)
InstanceOf(cls, base) ==
    IF cls = base THEN TRUE
    ELSE IF cls = "Error" THEN FALSE
    ELSE InstanceOf(ParentClass(cls), base)

\* an Error object: its class, the retry count it quotes (NetworkConnectionError
\* only) and the text its message embeds
Err(cls, n, text) == [cls |-> cls, n |-> n, text |-> text]
NoError == Err("none", 0, <<>>)

\* ERROR_CODE_MAP is an object literal: a lookup of a key it does not own goes
\* on to Object.prototype, whose members are the Object constructor, methods
\* that are no constructors, and __proto__ (the prototype object itself)
ObjectPrototype ==
    [k \in {"constructor", "toString", "valueOf", "hasOwnProperty", "__proto__"} |->
        IF k = "constructor" THEN "Object" ELSE "not a constructor"]

\* ERROR_CODE_MAP[code] ?? vex.APIException
ExceptionClass(code) ==
    IF code.t = "string" /\ code.s \in DOMAIN ERROR_CODE_MAP
    THEN ERROR_CODE_MAP[code.s]
    ELSE IF code.t = "string" /\ code.s \in DOMAIN ObjectPrototype
    THEN ObjectPrototype[code.s]
    ELSE "APIException"

\* new ExceptionClass(text): an error of the class; new Object(text) is a
\* String object; a value that is no constructor makes `new` throw TypeError
Construct(cls, text) ==
    CASE cls = "Object" -> Err("String", 0, text)
      [] cls = "not a constructor" ->
            Err("TypeError", 0, <<Str("ExceptionClass is not a constructor")>>)
      [] OTHER -> Err(cls, 0, text)

\* the failure raiseForResponse throws for an envelope with an error:
\* new ExceptionClass(`[${code}] ${message}`)
RaisedError(response) ==
    Construct(ExceptionClass(getErrorCode(response)),
              <<getErrorCode(response), getErrorMessage(response)>>)

ShouldRaise_OrWarning(response) == hasError(response) \/ hasWarning(response)

\* if (wrapper.hasError())
ShouldRaise(response) == hasError(response)

\* what console.warn is called with: if (wrapper.hasWarning()) getWarnings()
LoggedWarnings(response) == IF hasWarning(response) THEN getWarnings(response) ELSE <<>>

(***************************************************************************)
(* Interface.sendRequest                                                   *)
(***************************************************************************)
\* what fetch() rejects with: a network failure or the abort of the deadline
AbortError == Err("AbortError", 0, <<Str("This operation was aborted")>>)

TransportErrors == {Err("TypeError", 0, <<Str("fetch failed")>>), AbortError}

\* the objects a service may place at an error path
ErrKeys(code, message) ==
    (IF code = "" THEN {} ELSE {"code"}) \cup (IF message = "" THEN {} ELSE {"message"})

\* an object {code?, message?}; "" stands for a missing field
MkErr(code, message) ==
    Obj([k \in ErrKeys(code, message) |-> IF k = "code" THEN Str(code) ELSE Str(message)])

ListedCodes == {"INVALID_CREDENTIAL", "FAILED_CONVERT"}
UnlistedCodes == {"QUOTA_SUSPENDED"}

ErrorObjects ==
    { MkErr(c, m) : c \in ListedCodes \cup UnlistedCodes \cup {""}, m \in {"m", ""} }
        \ {EmptyObj}

RECURSIVE Wrap(_, _)
\* the envelope that holds v at the given path
Wrap(path, v) ==
    IF path = <<>> THEN v ELSE Obj(Field(Head(path), Wrap(Tail(path), v)))

ErrorEnvelopes ==
    { Wrap(errorPaths[i], e) : i \in 1..Len(errorPaths), e \in ErrorObjects }

Payload == Obj(Field("output", Obj(Field("connector", Str("c1")))))

CleanEnvelopes ==
    { Obj(Field("result", Payload)),
      EmptyObj,
      Obj(("result" :> Payload) @@ ("warning" :> MkErr("W1", "w"))),
      Obj(("result" :> Payload) @@ ("error" :> EmptyObj)) }

\* an envelope with an error and a warning
MixedEnvelopes ==
    { Obj(("error" :> MkErr("FAILED_CONVERT", "m")) @@ ("warning" :> MkErr("W1", "w"))) }

Envelopes == ErrorEnvelopes \cup CleanEnvelopes \cup MixedEnvelopes

\* a body that is not JSON text
BadJson == [t |-> "text", s |-> "<html>"]

\* the Response objects fetch() may resolve with
Responses ==
    { [t |-> "response", ct |-> "application/json", body |-> e] : e \in Envelopes }
    \cup { [t |-> "response", ct |-> "application/json; charset=utf-8", body |-> BadJson],
           [t |-> "response", ct |-> "application/octet-stream", body |-> Str("bytes")],
           [t |-> "response", ct |-> "", body |-> Null] }

NoResponse == [t |-> "response", ct |-> "", body |-> [t |-> "none"]]

IsJsonContentType_NotBinary(ct) == ct # "application/octet-stream"

\* contentType.includes('application/json')
IsJsonContentType(ct) == ct \in {"application/json", "application/json; charset=utf-8"}

\* connectionSettings.defaultTimeout and connectionSettings.longTimeout, in ms
defaultTimeout == 30 * 1000
longTimeout == 300 * 1000

\* an endpoint is the sequence of the parts its slashes separate: "/upload/file"
\* is <<"", "upload", "file">> and "upload/file" is <<"upload", "file">>
UploadFileEndpoint == <<"", "upload", "file">>
DownloadUrlGetEndpoint == <<"", "download", "url", "get">>
ConvertFileEndpoint == <<"", "convert", "file">>

\* if (!endpoint.startsWith('/')) endpoint = `/${endpoint}`
NormalizeEndpoint(endpoint) ==
    IF endpoint # <<>> /\ Head(endpoint) = "" THEN endpoint ELSE <<"">> \o endpoint

\* a ?? b
Coalesce(a, b) == IF a.t \in {"undefined", "null"} THEN b ELSE a

\* ['/upload/file', '/download/url/get'].includes(endpoint)
IsLongEndpoint(endpoint) == endpoint \in {UploadFileEndpoint, DownloadUrlGetEndpoint}

\* timeout ?? [...].includes(endpoint) ? this.longTimeout : this.defaultTimeout
\* (?? binds tighter than ?:, so the coalesced value is the condition)
TimeoutMs(timeout, endpoint) ==
    IF Truthy(Coalesce(timeout, JsBool(IsLongEndpoint(endpoint))))
    THEN NumV(longTimeout) ELSE NumV(defaultTimeout)

\* the endpoints and timeouts sendRequest is called with
Endpoints == {UploadFileEndpoint, Tail(UploadFileEndpoint), DownloadUrlGetEndpoint, ConvertFileEndpoint}
Timeouts == {Undefined, NumV(defaultTimeout), NumV(5000), NumV(0)}
Requests == [endpoint : Endpoints, timeout : Timeouts]
NoRequest == [endpoint |-> <<>>, timeout |-> Undefined]

BackoffMs_FromOne(a) == (2 ^ (a - 1)) * 1000

\* 2 ** attempt * 1000
BackoffMs(a) == (2 ^ a) * 1000

LoopTest_OneMore(a, r) == a <= r + 1

\* the test of the retry loop: attempt <= retries
LoopTest(a, r) == a <= r

RetryAgain_Inclusive(a, r) == a <= r

\* attempt < retries: another attempt follows the failed one
RetryAgain(a, r) == a < r

\* error instanceof APIError
IsAPIError(cls) == InstanceOf(cls, "APIError")

IsSyntaxError_TypeError(cls) == InstanceOf(cls, "TypeError")

\* error instanceof SyntaxError
IsSyntaxError(cls) == InstanceOf(cls, "SyntaxError")

Pending == [kind |-> "pending", value |-> Null, error |-> NoError]
Returned(v) == [kind |-> "returned", value |-> v, error |-> NoError]
Threw(e) == [kind |-> "threw", value |-> Null, error |-> e]

\* the record kept of an HTTP attempt: how it ended, the error it raised and
\* the value it produced
Attempt(kind, err, value) ==
    [kind |-> kind, err |-> err, value |-> value, contentType |-> "none",
     warned |-> Null, logged |-> <<>>]

\* the attempt whose fetch resolved with response r: response.headers.get('Content-Type') || ''
Received(a, r) == [a EXCEPT !.contentType = r.ct]

\* the attempt that decoded body: the body is kept when it bears warnings
Decoded(a, body) == [a EXCEPT !.warned = IF hasWarning(body) THEN body ELSE Null]

\* the attempt for which raiseForResponse returned: console.warn has been
\* called with the warnings, if any
Logged(a, body) == [a EXCEPT !.logged = LoggedWarnings(body)]

SetLast(seq, x) == [seq EXCEPT ![Len(seq)] = x]

\* return of the call with value v
Return(v) ==
    /\ spc' = "returned"
    /\ outcome' = Returned(v)
    /\ UNCHANGED <<retries, attempt, waits>>

\* the catch block of sendRequest for a caught error
Catch(error) ==
    IF IsAPIError(error.cls)
    THEN /\ spc' = "threw"
         /\ outcome' = Threw(error)
         /\ UNCHANGED <<retries, attempt, waits>>
    ELSE IF IsSyntaxError(error.cls)
    THEN /\ spc' = "threw"
         /\ outcome' = Threw(Err("InvalidJSONResponseError", 0, error.text))
         /\ UNCHANGED <<retries, attempt, waits>>
    ELSE IF RetryAgain(attempt, retries)
    THEN /\ spc' = "backoff"
         /\ waits' = Append(waits, BackoffMs(attempt))
         /\ UNCHANGED <<retries, attempt, outcome>>
    ELSE /\ spc' = "threw"
         /\ outcome' = Threw(Err("NetworkConnectionError", retries, error.text))
         /\ UNCHANGED <<retries, attempt, waits>>

\* request(): new AbortController(); setTimeout(() => controller.abort(), timeoutMs)
NewAbort == [timer |-> "armed", aborted |-> FALSE]

\* the timer callback has run: controller.abort()
Fired == [timer |-> "fired", aborted |-> TRUE]

ClearTimeout_Keep(t) == t

\* clearTimeout(timeoutTimer): a timer that has not fired never fires
ClearTimeout(t) == IF t.timer = "armed" THEN [t EXCEPT !.timer = "cleared"] ELSE t

\* request(): finally { clearTimeout(timeoutTimer) } of the attempt in flight
Finally(ts) == [ts EXCEPT ![Len(ts)] = ClearTimeout(@)]

\* the file field uploadFile passes to sendRequest: the stream readable.open()
\* returned, opened once before the retry loop; parts are the Blobs built from it
UploadFile(stream, chunkSize, isNodeReadable) ==
    [fn |-> "uploadFile", source |-> stream, stream |-> stream, chunkSize |-> chunkSize,
     isNodeReadable |-> isNodeReadable, locked |-> FALSE, parts |-> <<>>]

HasFile(c) == c.fn = "uploadFile"

\* this.stream.getReader() on a web stream whose earlier reader was never released
GetReaderThrows(c) == HasFile(c) /\ ~c.isNodeReadable /\ c.locked

RECURSIVE finalBuffer(_)
RECURSIVE process(_, _, _, _, _)
\* finalBuffer: the chunks of the collector copied one after another
finalBuffer(chunksCollector) ==
    IF chunksCollector = <<>> THEN <<>>
    ELSE Head(chunksCollector) \o finalBuffer(Tail(chunksCollector))

\* request() building the form data: a new StreamChunker over the field's stream
\* is processed to its end and the collected bytes become the file part
FormData(c) ==
    IF HasFile(c)
    THEN [c EXCEPT !.stream = <<>>,
                   !.locked = ~c.isNodeReadable,
                   !.parts = Append(@, finalBuffer(process(c.stream, <<>>, <<>>, c.chunkSize,
                                                          c.isNodeReadable)))]
    ELSE c

\* loop test passes: request() builds the body and calls fetch
IssueFetch ==
    /\ spc = "loop"
    /\ LoopTest(attempt, retries)
    /\ ~GetReaderThrows(call)
    /\ call' = FormData(call)
    /\ spc' = "fetch"
    /\ fetches' = Append(fetches, Attempt("pending", NoError, Null))
    /\ timers' = Append(timers, TimeoutMs(sendArgs.timeout, NormalizeEndpoint(sendArgs.endpoint)))
    /\ aborts' = Append(aborts, NewAbort)
    /\ UNCHANGED <<retries, attempt, waits, outcome, sendArgs, wf, chunker, credential, config>>

\* loop test passes and request() throws while it builds the body, before the
\* AbortController and the fetch: the catch block of sendRequest handles it
FormDataFails ==
    /\ spc = "loop"
    /\ LoopTest(attempt, retries)
    /\ GetReaderThrows(call)
    /\ Catch(Err("TypeError", 0, <<Str("ReadableStream is locked")>>))
    /\ UNCHANGED <<fetches, timers, aborts, sendFrame>>

\* loop test fails: throw new NetworkConnectionError('Request failed without exception.')
LoopExit ==
    /\ spc = "loop"
    /\ ~LoopTest(attempt, retries)
    /\ spc' = "threw"
    /\ outcome' = Threw(Err("NetworkConnectionError", 0,
                            <<Str("Request failed without exception.")>>))
    /\ UNCHANGED <<retries, attempt, waits, fetches, timers, aborts, sendFrame>>

\* fetch rejects with a network failure
FetchRejects ==
    /\ spc = "fetch"
    /\ \E e \in TransportErrors \ {AbortError} :
          /\ fetches' = SetLast(fetches, Attempt("rejected", e, Null))
          /\ Catch(e)
    /\ aborts' = Finally(aborts)
    /\ UNCHANGED <<timers, sendFrame>>

\* fetch resolves with a response that is not JSON: returned as it is
FetchResolvesRaw ==
    /\ spc = "fetch"
    /\ \E r \in Responses :
          /\ ~IsJsonContentType(r.ct)
          /\ fetches' = SetLast(fetches, Received(Attempt("raw", NoError, r), r))
          /\ Return(r)
    /\ aborts' = Finally(aborts)
    /\ UNCHANGED <<timers, sendFrame>>

\* fetch resolves with a JSON response whose body decodes: raiseForResponse
FetchResolvesJson ==
    /\ spc = "fetch"
    /\ \E r \in Responses :
          /\ IsJsonContentType(r.ct)
          /\ r.body # BadJson
          /\ IF ShouldRaise(r.body)
             THEN /\ fetches' = SetLast(fetches,
                        Decoded(Received(Attempt("serviceError", RaisedError(r.body), Null), r),
                                r.body))
                  /\ Catch(RaisedError(r.body))
             ELSE /\ fetches' = SetLast(fetches,
                        Logged(Decoded(Received(Attempt("json", NoError, r.body), r), r.body),
                               r.body))
                  /\ Return(r.body)
    /\ aborts' = Finally(aborts)
    /\ UNCHANGED <<timers, sendFrame>>

\* fetch resolves with a JSON content type and response.json() throws SyntaxError
FetchResolvesBadJson ==
    /\ spc = "fetch"
    /\ \E r \in Responses :
          /\ IsJsonContentType(r.ct)
          /\ r.body = BadJson
          /\ LET e == Err("SyntaxError", 0, <<Str("Unexpected token <")>>)
             IN /\ fetches' = SetLast(fetches, Received(Attempt("badjson", e, Null), r))
                /\ Catch(e)
    /\ aborts' = Finally(aborts)
    /\ UNCHANGED <<timers, sendFrame>>

\* fetch resolves with a JSON content type and reading the body fails
BodyReadFails ==
    /\ spc = "fetch"
    /\ \E e \in TransportErrors \ {AbortError} :
          /\ fetches' = SetLast(fetches, Attempt("bodyFailed", e, Null))
          /\ Catch(e)
    /\ aborts' = Finally(aborts)
    /\ UNCHANGED <<timers, sendFrame>>

\* the abort timer of attempt n fires: its callback aborts the controller of
\* attempt n; a fetch pending on that controller's signal rejects with AbortError
DeadlineFires ==
    /\ \E n \in DOMAIN aborts :
          /\ aborts[n].timer = "armed"
          /\ IF spc = "fetch" /\ n = Len(fetches)
             THEN /\ aborts' = Finally([aborts EXCEPT ![n] = Fired])
                  /\ fetches' = SetLast(fetches, Attempt("rejected", AbortError, Null))
                  /\ Catch(AbortError)
             ELSE /\ aborts' = [aborts EXCEPT ![n] = Fired]
                  /\ UNCHANGED <<retries, attempt, spc, waits, fetches, outcome>>
    /\ UNCHANGED <<timers, sendFrame>>

\* the backoff timer fires: next iteration of the loop
BackoffElapses ==
    /\ spc = "backoff"
    /\ spc' = "loop"
    /\ attempt' = attempt + 1
    /\ UNCHANGED <<retries, waits, fetches, outcome, timers, aborts, sendFrame>>

(***************************************************************************)
(* Conversion workflow: values                                             *)
(***************************************************************************)
Insts == {1, 2}

SLEEP_PATTERN == <<NumV(10), NumV(10), NumV(15)>>

\* the pollIntervals arguments the caller passes to wait()
PollIntervalChoices ==
    { SLEEP_PATTERN, <<>>, <<NumV(5), NumV(7)>>,
      <<NumV(0)>>, <<NumV(0 - 5)>>, <<NaN>>, <<NumV(5), Str("x")>> }

\* pollIntervals[step], 0-based; undefined beyond the end
At(arr, k) == IF k + 1 \in DOMAIN arr THEN arr[k + 1] ELSE Undefined

\* typeof interval === 'number'
IsNumber(v) == v.t = "number"

\* interval * 1000
SleepMs(v) == IF v.nan THEN NaN ELSE NumV(v.n * 1000)

NextStep_Wrap(step, len) == IF step < len - 1 THEN step + 1 ELSE 0

\* if (step < pollIntervals.length - 1) step++
NextStep(step, len) == IF step < len - 1 THEN step + 1 ELSE step

\* what sendRequest may throw to a protocol operation, and the TypeError a
\* response without the expected members raises in the workflow
CallFailures ==
    {"InvalidCredentialError", "InvalidJSONResponseError", "NetworkConnectionError", "TypeError"}

UploadConnectors == {"u1", "u2"}
TaskIds == {"t1", "t2"}
ConvertStatuses == {"running", "completed", "failed"}

\* response.result.output of /task/response: entity.status, entity.vcredits
\* (-1: not reported) and result.output.status ("absent": no inner result)
ProbeResponses ==
    [ entity : {"running", "completed", "pending"},
      vcredits : {0 - 1, 2},
      result : {"absent", "successful", "failed"} ]

NoProbe == [entity |-> "none", vcredits |-> 0 - 1, result |-> "absent"]

\* what /download/url/get resolves to in sendRequest: a binary response with a
\* body stream, a response without body, or a decoded JSON object
DownloadReplies == {"stream", "nobody", "json"}

Req(path, connector, mode) == [path |-> path, connector |-> connector, mode |-> mode]
NoReq == Req("none", "undefined", "none")

Ret(op, kind, value, error) == [op |-> op, kind |-> kind, value |-> value, error |-> error]
NoRet == Ret("none", "none", "none", "none")

Sat(n) == IF n < CountCap THEN n ELSE CountCap

\* a workflow that Converter.convert has not created yet ("unused"), or that is
\* never created ("absent")
NewWf(pc) ==
    [ pc |-> pc,
      \* fields of Conversion
      convertConnector |-> "undefined",
      convertStatus |-> "undefined",
      credits |-> 0 - 1,
      sinkHasPath |-> FALSE,
      sinkPath |-> "out.bin",
      \* locals of the operation in flight
      step |-> 0,
      pollIntervals |-> <<>>,
      useServerFilename |-> FALSE,
      uploadConnector |-> "undefined",
      \* what the caller and the network have seen
      handle |-> FALSE,
      ret |-> NoRet,
      inFlight |-> NoReq,
      uploadDone |-> FALSE,
      converted |-> [status |-> "none", id |-> "undefined"],
      lastProbe |-> NoProbe,
      seenCompleted |-> FALSE,
      probes |-> 0,
      sleeps |-> 0,
      lastSleep |-> Undefined,
      written |-> FALSE,
      openedPath |-> "none" ]

\* the request a protocol operation sends
UploadRequest == Req("/upload/file", "undefined", "none")
ConvertRequest_Sync(uploadConnector) == Req("/convert/file", uploadConnector, "sync")
ConvertRequest(uploadConnector) == Req("/convert/file", uploadConnector, "async")
TaskResponseRequest(connector) == Req("/task/response", connector, "none")
DownloadUrlRequest(connector) == Req("/download/url", connector, "none")
DownloadUrlGetRequest(connector) == Req("/download/url/get", connector, "none")

IsRunning_NotFailed(status) == status # "failed"

\* convertResp.entity.status !== 'running' raises EntityStatusNotRunningError
IsRunning(status) == status = "running"

StatusAfter_Keep(r, old) == IF r.result # "absent" THEN r.result ELSE old

\* getConvertTaskStatus: the fields after a probe response r
StatusAfter(r, old) == IF r.result # "absent" THEN r.result ELSE "undefined"
CreditsAfter(r, old) == IF r.result # "absent" THEN r.vcredits ELSE old

\* the object getConvertTaskStatus returns
TaskStatus(r, old) ==
    [task |-> r.entity, credits |-> CreditsAfter(r, old), convert |-> StatusAfter(r, old)]

DoneValue_NotRunning(status) == status.task # "running"
DoneValue_Convert(status) == status.convert = "successful"

\* done(): status.task === 'completed'
DoneValue(status) == status.task = "completed"

successful_Defined(w) == w.convertStatus # "undefined"

\* successful(): this.convertStatus === 'successful'
successful(w) == w.convertStatus = "successful"

Bool(b) == IF b THEN "true" ELSE "false"

\* workflow w sends a request and awaits the response
Sent(w, req) == [w EXCEPT !.inFlight = req]

\* end of a public operation: nothing is in flight and its locals are gone
EndOp(w) ==
    [w EXCEPT !.inFlight = NoReq, !.step = 0, !.pollIntervals = <<>>,
              !.useServerFilename = FALSE, !.uploadConnector = "undefined",
              !.lastSleep = Undefined]

Fails_Reset(w, pc, op, cls) ==
    [EndOp(w) EXCEPT !.pc = pc, !.ret = Ret(op, "threw", "none", cls),
                     !.convertStatus = "undefined"]

\* a public operation ends by throwing error cls
Fails(w, pc, op, cls) == [EndOp(w) EXCEPT !.pc = pc, !.ret = Ret(op, "threw", "none", cls)]

\* start of a public operation: the locals and observations of the previous
\* operation are dropped
Fresh(w, op) ==
    [w EXCEPT !.ret = Ret(op, "pending", "none", "none"),
              !.probes = 0, !.sleeps = 0, !.written = FALSE,
              !.openedPath = "none"]

\* a public operation returns value
Returns(w, op, value) ==
    [EndOp(w) EXCEPT !.pc = "idle", !.ret = Ret(op, "returned", value, "none")]

\* getConvertTaskStatus after the response r of taskResponse
AfterProbe(w, r) ==
    [w EXCEPT !.convertStatus = StatusAfter(r, @),
              !.credits = CreditsAfter(r, @),
              !.lastProbe = r,
              !.seenCompleted = @ \/ r.entity = "completed"]

(***************************************************************************)
(* Conversion workflow: operations, one action per step between awaits     *)
(***************************************************************************)
ConnectorOf_Shared(i) ==
    LET started == {j \in Insts : wf[j].convertConnector # "undefined"}
    IN IF started = {} THEN "undefined"
       ELSE wf[CHOOSE j \in started : \A k \in started : j <= k].convertConnector

\* this.convertConnector of instance i
ConnectorOf(i) == wf[i].convertConnector

\* Converter.convert: new Conversion, init, startConversion, uploadFile sends
Convert(i) ==
    /\ wf[i].pc = "unused"
    /\ \E hasPath \in BOOLEAN :
          wf' = [wf EXCEPT ![i] =
                    Sent([Fresh(@, "init") EXCEPT !.pc = "uploading", !.sinkHasPath = hasPath],
                         UploadRequest)]
    /\ UNCHANGED wfFrame

\* uploadFile: readable.open() rejects before anything is sent
SourceOpenFails(i) ==
    /\ wf[i].pc = "unused"
    /\ wf' = [wf EXCEPT ![i] = Fails(Fresh(@, "init"), "failed", "init", "Error")]
    /\ UNCHANGED wfFrame

\* startConversion: the upload returned a connector; convertFile sends
UploadReturns(i) ==
    /\ wf[i].pc = "uploading"
    /\ \E c \in UploadConnectors :
          wf' = [wf EXCEPT ![i] =
                    Sent([@ EXCEPT !.pc = "converting", !.uploadConnector = c, !.uploadDone = TRUE],
                         ConvertRequest(c))]
    /\ UNCHANGED wfFrame

UploadFails(i) ==
    /\ wf[i].pc = "uploading"
    /\ \E e \in CallFailures : wf' = [wf EXCEPT ![i] = Fails(@, "failed", "init", e)]
    /\ UNCHANGED wfFrame

\* startConversion: the convert response; Converter.convert returns the handle
ConvertReturns(i) ==
    /\ wf[i].pc = "converting"
    /\ \E st \in ConvertStatuses, id \in TaskIds :
          LET w == [wf[i] EXCEPT !.converted = [status |-> st, id |-> id]]
          IN wf' = [wf EXCEPT ![i] =
                       IF ~IsRunning(st)
                       THEN Fails(w, "failed", "init", "EntityStatusNotRunningError")
                       ELSE [Returns(w, "init", "void") EXCEPT
                                !.convertConnector = id, !.handle = TRUE]]
    /\ UNCHANGED wfFrame

ConvertFails(i) ==
    /\ wf[i].pc = "converting"
    /\ \E e \in CallFailures : wf' = [wf EXCEPT ![i] = Fails(@, "failed", "init", e)]
    /\ UNCHANGED wfFrame

\* done(): getConvertTaskStatus sends the probe
Done(i) ==
    /\ wf[i].pc = "idle"
    /\ wf' = [wf EXCEPT ![i] =
                 Sent([Fresh(@, "done") EXCEPT !.pc = "doneProbe", !.probes = 1],
                      TaskResponseRequest(ConnectorOf(i)))]
    /\ UNCHANGED wfFrame

DoneProbeReturns(i) ==
    /\ wf[i].pc = "doneProbe"
    /\ \E r \in ProbeResponses :
          wf' = [wf EXCEPT ![i] =
                    Returns(AfterProbe(@, r), "done",
                            Bool(DoneValue(TaskStatus(r, @.credits))))]
    /\ UNCHANGED wfFrame

DoneProbeFails(i) ==
    /\ wf[i].pc = "doneProbe"
    /\ \E e \in CallFailures : wf' = [wf EXCEPT ![i] = Fails(@, "idle", "done", e)]
    /\ UNCHANGED wfFrame

\* wait(pollIntervals): step = 0 and the first done()
Wait(i) ==
    /\ wf[i].pc = "idle"
    /\ \E iv \in PollIntervalChoices :
          wf' = [wf EXCEPT ![i] =
                    Sent([Fresh(@, "wait") EXCEPT
                             !.pc = "waitProbe", !.pollIntervals = iv, !.probes = 1],
                         TaskResponseRequest(ConnectorOf(i)))]
    /\ UNCHANGED wfFrame

\* wait: done() returned; leave the loop, or look up the interval and sleep
WaitProbeReturns(i) ==
    /\ wf[i].pc = "waitProbe"
    /\ \E r \in ProbeResponses :
          LET w == AfterProbe(wf[i], r)
              interval == At(w.pollIntervals, w.step)
          IN wf' = [wf EXCEPT ![i] =
                       IF DoneValue(TaskStatus(r, wf[i].credits))
                       THEN Returns(w, "wait", "void")
                       ELSE IF IsNumber(interval)
                       THEN [w EXCEPT !.pc = "waitSleep",
                                      !.inFlight = NoReq,
                                      !.lastSleep = SleepMs(interval),
                                      !.sleeps = Sat(@ + 1)]
                       ELSE Fails(w, "idle", "wait", "Error")]
    /\ UNCHANGED wfFrame

WaitProbeFails(i) ==
    /\ wf[i].pc = "waitProbe"
    /\ \E e \in CallFailures : wf' = [wf EXCEPT ![i] = Fails(@, "idle", "wait", e)]
    /\ UNCHANGED wfFrame

\* wait: sleepFn resolved; advance step and call done() again
SleepElapses(i) ==
    /\ wf[i].pc = "waitSleep"
    /\ wf' = [wf EXCEPT ![i] =
                 Sent([@ EXCEPT !.pc = "waitProbe",
                                !.step = NextStep(@, Len(wf[i].pollIntervals)),
                                !.probes = Sat(@ + 1)],
                      TaskResponseRequest(ConnectorOf(i)))]
    /\ UNCHANGED wfFrame

\* successful(): synchronous, reads convertStatus
Successful(i) ==
    /\ wf[i].pc = "idle"
    /\ wf' = [wf EXCEPT ![i] =
                 Returns(Fresh(@, "successful"), "successful", Bool(successful(@)))]
    /\ UNCHANGED wfFrame

\* download(useServerFilename): getDownloadUrl sends
Download(i) ==
    /\ wf[i].pc = "idle"
    /\ \E usf \in BOOLEAN :
          wf' = [wf EXCEPT ![i] =
                    Sent([Fresh(@, "download") EXCEPT
                             !.pc = "downloadUrl", !.useServerFilename = usf],
                         DownloadUrlRequest(ConnectorOf(i)))]
    /\ UNCHANGED wfFrame

\* filenames of response.result.output.name
ServerFilenames == {"server.pdf"}

AssignsPath_Always(useServerFilename, sinkHasPath) == useServerFilename

\* download: useServerFilename && 'path' in this.output.sink
AssignsPath(useServerFilename, sinkHasPath) == useServerFilename /\ sinkHasPath

\* download: the connector and name came back; set the path; downloadUrlGet sends
DownloadUrlReturns(i) ==
    /\ wf[i].pc = "downloadUrl"
    /\ \E c \in {"d1"}, filename \in ServerFilenames :
          wf' = [wf EXCEPT ![i] =
                    Sent([@ EXCEPT !.pc = "downloadGet",
                                   !.sinkPath = IF AssignsPath(wf[i].useServerFilename,
                                                               wf[i].sinkHasPath)
                                                THEN filename ELSE @],
                         DownloadUrlGetRequest(c))]
    /\ UNCHANGED wfFrame

DownloadUrlFails(i) ==
    /\ wf[i].pc = "downloadUrl"
    /\ \E e \in CallFailures : wf' = [wf EXCEPT ![i] = Fails(@, "idle", "download", e)]
    /\ UNCHANGED wfFrame

\* downloadUrlGet: without response.body it returns at once; otherwise the sink
\* is opened (FileOutput.open creates the stream at this._path) and the chunks
\* are written
DownloadGetReturns(i) ==
    /\ wf[i].pc = "downloadGet"
    /\ \E reply \in DownloadReplies :
          wf' = [wf EXCEPT ![i] =
                    [Returns(@, "download", "void") EXCEPT
                        !.written = (reply = "stream"),
                        !.openedPath = IF reply = "stream" THEN wf[i].sinkPath ELSE "none"]]
    /\ UNCHANGED wfFrame

DownloadGetFails(i) ==
    /\ wf[i].pc = "downloadGet"
    /\ \E e \in CallFailures : wf' = [wf EXCEPT ![i] = Fails(@, "idle", "download", e)]
    /\ UNCHANGED wfFrame

(***************************************************************************)
(* StreamChunker.process                                                   *)
(***************************************************************************)
MaxElems == 3
MaxElemLen == 2
MaxChunkSize == 3
MaxLoopElems == 2

\* the values of a byte, and the strings a stream in string mode may yield
ByteValues == {0, 1}
StringValues == {"é"}

\* UTF-8 encoding of a string (Buffer.from(string), TextEncoder.encode)
Utf8(str) == IF str = "é" THEN <<195, 169>> ELSE <<>>

SeqsUpTo(S, n) == UNION { [1..k -> S] : k \in 0..n }

\* what a source yields: byte arrays (empty ones too) and strings
ByteArray(b) == [t |-> "bytes", b |-> b]
StringChunk(str) == [t |-> "string", s |-> str]
Elements ==
    { ByteArray(b) : b \in SeqsUpTo(ByteValues, MaxElemLen) }
        \cup { StringChunk(str) : str \in StringValues }

\* typeof chunk === 'string' ? Buffer.from(chunk) : chunk
BufferFrom(chunk) == IF chunk.t = "string" THEN Utf8(chunk.s) ELSE chunk.b

TextEncode_Latin1(value) == IF value.t = "string" THEN <<233>> ELSE value.b

\* typeof value === 'string' ? new TextEncoder().encode(value) : value
TextEncode(value) == IF value.t = "string" THEN Utf8(value.s) ELSE value.b

BufferConcat_Prepend(buffer, incoming) == incoming \o buffer

\* Buffer.concat([buffer, incoming])
BufferConcat(buffer, incoming) == buffer \o incoming

Merge_Overwrite(buffer, incoming) == incoming

\* merged.set(buffer); merged.set(incoming, buffer.length)
Merge(buffer, incoming) ==
    [k \in 1..(Len(buffer) + Len(incoming)) |->
        IF k <= Len(buffer) THEN buffer[k] ELSE incoming[k - Len(buffer)]]

\* buffer.subarray(start, end) and buffer.slice(start, end), 0-based, end excluded
subarray(buffer, start, end) == SubSeq(buffer, start + 1, end)

slice_Copy(buffer, start, end) == buffer

slice(buffer, start, end) == SubSeq(buffer, start + 1, end)

HasFullChunk_Strict(buffer, chunkSize) == Len(buffer) > chunkSize

\* while (buffer.length >= this.chunkSize)
HasFullChunk(buffer, chunkSize) == Len(buffer) >= chunkSize

\* collector.write(data): the writes the sink has received, in order
write(collector, data) == Append(collector, data)

\* collector.push(data): the array with data as its new last element
push(collector, data) == collector \o <<data>>

\* emit(data)
emit(collector, data, isWritable) ==
    IF isWritable THEN write(collector, data) ELSE push(collector, data)

\* StreamChunker.process run to its end over a finite stream: the collector
process(stream, buffer, collector, chunkSize, isNodeReadable) ==
    IF HasFullChunk(buffer, chunkSize)
    THEN IF isNodeReadable
         THEN process(stream, subarray(buffer, chunkSize, Len(buffer)),
                      push(collector, subarray(buffer, 0, chunkSize)), chunkSize, isNodeReadable)
         ELSE process(stream, slice(buffer, chunkSize, Len(buffer)),
                      push(collector, slice(buffer, 0, chunkSize)), chunkSize, isNodeReadable)
    ELSE IF stream # <<>>
    THEN IF isNodeReadable
         THEN process(Tail(stream), BufferConcat(buffer, BufferFrom(Head(stream))), collector,
                      chunkSize, isNodeReadable)
         ELSE process(Tail(stream), Merge(buffer, TextEncode(Head(stream))), collector,
                      chunkSize, isNodeReadable)
    ELSE IF buffer # <<>> THEN push(collector, buffer) ELSE collector

RECURSIVE Flatten(_)
\* the bytes of a sequence of byte arrays, in order
Flatten(chunks) == IF chunks = <<>> THEN <<>> ELSE Head(chunks) \o Flatten(Tail(chunks))

\* a StreamChunker at the start of process(); source is the bytes the stream
\* is going to deliver
NewChunker(stream, chunkSize, isNodeReadable, isWritable) ==
    [ pc |-> "read",
      isNodeReadable |-> isNodeReadable,
      isWritable |-> isWritable,
      chunkSize |-> chunkSize,
      stream |-> stream,
      buffer |-> <<>>,
      collector |-> <<>>,
      source |-> Flatten([k \in 1..Len(stream) |-> BufferFrom(stream[k])]) ]

\* processNodeStream: the stream yields a chunk; it is appended to the buffer
NodeStreamYields ==
    /\ chunker.pc = "read" /\ chunker.isNodeReadable
    /\ chunker.stream # <<>>
    /\ LET buffer == BufferConcat(chunker.buffer, BufferFrom(Head(chunker.stream)))
       IN chunker' = [chunker EXCEPT
                         !.stream = Tail(@),
                         !.buffer = buffer,
                         !.pc = IF HasFullChunk(buffer, chunker.chunkSize)
                                THEN "slice" ELSE "read"]
    /\ UNCHANGED <<sendVars, wf, call, credential, config>>

\* processNodeStream: one turn of the inner loop
NodeStreamSlices ==
    /\ chunker.pc = "slice" /\ chunker.isNodeReadable
    /\ LET buffer == subarray(chunker.buffer, chunker.chunkSize, Len(chunker.buffer))
       IN chunker' = [chunker EXCEPT
                         !.collector = emit(@, subarray(chunker.buffer, 0, chunker.chunkSize),
                                            chunker.isWritable),
                         !.buffer = buffer,
                         !.pc = IF HasFullChunk(buffer, chunker.chunkSize)
                                THEN "slice" ELSE "read"]
    /\ UNCHANGED <<sendVars, wf, call, credential, config>>

\* processNodeStream: the stream ended; what is left is emitted
NodeStreamEnds ==
    /\ chunker.pc = "read" /\ chunker.isNodeReadable
    /\ chunker.stream = <<>>
    /\ chunker' = [chunker EXCEPT
                      !.collector = IF Len(chunker.buffer) > 0
                                    THEN emit(@, chunker.buffer, chunker.isWritable) ELSE @,
                      !.pc = "done"]
    /\ UNCHANGED <<sendVars, wf, call, credential, config>>

\* processBrowserStream: reader.read() resolves with a value
BrowserReadValue ==
    /\ chunker.pc = "read" /\ ~chunker.isNodeReadable
    /\ chunker.stream # <<>>
    /\ LET buffer == Merge(chunker.buffer, TextEncode(Head(chunker.stream)))
       IN chunker' = [chunker EXCEPT
                         !.stream = Tail(@),
                         !.buffer = buffer,
                         !.pc = IF HasFullChunk(buffer, chunker.chunkSize)
                                THEN "slice" ELSE "read"]
    /\ UNCHANGED <<sendVars, wf, call, credential, config>>

\* processBrowserStream: one turn of the inner loop
BrowserSlices ==
    /\ chunker.pc = "slice" /\ ~chunker.isNodeReadable
    /\ LET buffer == slice(chunker.buffer, chunker.chunkSize, Len(chunker.buffer))
       IN chunker' = [chunker EXCEPT
                         !.collector = emit(@, slice(chunker.buffer, 0, chunker.chunkSize),
                                            chunker.isWritable),
                         !.buffer = buffer,
                         !.pc = IF HasFullChunk(buffer, chunker.chunkSize)
                                THEN "slice" ELSE "read"]
    /\ UNCHANGED <<sendVars, wf, call, credential, config>>

\* processBrowserStream: reader.read() resolves with done
BrowserReadDone ==
    /\ chunker.pc = "read" /\ ~chunker.isNodeReadable
    /\ chunker.stream = <<>>
    /\ chunker' = [chunker EXCEPT
                      !.collector = IF Len(chunker.buffer) > 0
                                    THEN emit(@, chunker.buffer, chunker.isWritable) ELSE @,
                      !.pc = "done"]
    /\ UNCHANGED <<sendVars, wf, call, credential, config>>

(***************************************************************************)
(* ErrorWrapper: the envelopes inspected and the calls made on a wrapper   *)
(***************************************************************************)
\* a key that is missing from an object
Absent == [t |-> "absent"]

\* the member k of an object literal, left out when v is Absent
Slot(k, v) == IF v = Absent THEN [x \in {} |-> Null] ELSE Field(k, v)

\* what a response may hold where an error object is looked for
ErrorLeaves ==
    { Absent, Null, Str("oops"), EmptyObj,
      MkErr("E1", "m"), MkErr("E2", ""), MkErr("", "m2"),
      Obj(Field("code", Str(""))), Obj(Field("code", Null)) }

\* result.output.result, result.output and result of a response
InnerResults == {Null, Str("r")} \cup { Obj(Slot("error", e)) : e \in ErrorLeaves }
Outputs == {Absent, Null} \cup { Obj(Slot("result", q)) : q \in InnerResults }
Results ==
    {Absent, Null, Str("r")}
        \cup { Obj(Slot("error", e) @@ Slot("output", o)) : e \in ErrorLeaves, o \in Outputs }

\* the decoded bodies an ErrorWrapper is constructed with
WrappedResponses ==
    {Null, Str("body")}
        \cup { Obj(root.f @@ Slot("error", e) @@ Slot("result", r)) :
                   root \in {EmptyObj, MkErr("R1", ""), MkErr("", "rm"),
                            Obj(Field("code", Str("")))},
                   e \in ErrorLeaves, r \in Results }

\* what a response may hold where a warning object is looked for
WarningLeaves ==
    { Absent, Null, MkErr("W1", "w"), MkErr("", "w2"), Obj(Field("code", Str(""))) }

\* responses with warnings at the four warning paths, with and without an error
WarningResponses ==
    { Obj(Slot("error", e) @@ Slot("warning", w1)
          @@ Field("result", Obj(Slot("warning", w2) @@ Field("output", o)))) :
          e \in {Absent, MkErr("E1", "m")}, w1 \in WarningLeaves, w2 \in WarningLeaves,
          o \in { Obj(Slot("warning", w3) @@ Field("result", Obj(Slot("warning", w4)))) :
                      w3 \in WarningLeaves, w4 \in WarningLeaves } }

\* error codes: every code of the table, codes the table does not have and
\* names of members of Object.prototype
ErrorCodes ==
    DOMAIN ERROR_CODE_MAP \cup {"QUOTA_SUSPENDED", "constructor", "toString", "__proto__"}
CodedResponses == { Obj(Field("error", MkErr(c, "m"))) : c \in ErrorCodes }

\* new ErrorWrapper(response)
NewWrapper(response) == [fn |-> "new", response |-> response, result |-> Undefined]

\* wrapper.hasError()
CallHasError ==
    /\ call.fn # "none"
    /\ call' = [call EXCEPT !.fn = "hasError", !.result = JsBool(hasError(call.response))]
    /\ UNCHANGED <<sendVars, wf, chunker, credential, config>>

\* wrapper.getError()
CallGetError ==
    /\ call.fn # "none"
    /\ call' = [call EXCEPT !.fn = "getError", !.result = getError(call.response)]
    /\ UNCHANGED <<sendVars, wf, chunker, credential, config>>

\* wrapper.hasWarning()
CallHasWarning ==
    /\ call.fn # "none"
    /\ call' = [call EXCEPT !.fn = "hasWarning", !.result = JsBool(hasWarning(call.response))]
    /\ UNCHANGED <<sendVars, wf, chunker, credential, config>>

\* wrapper.getWarnings()
CallGetWarnings ==
    /\ call.fn # "none"
    /\ call' = [call EXCEPT !.fn = "getWarnings", !.result = getWarnings(call.response)]
    /\ UNCHANGED <<sendVars, wf, chunker, credential, config>>

\* ExceptionHandler.raiseForResponse(response): throws, or logs the warnings
\* and returns
CallRaiseForResponse ==
    /\ call.fn # "none"
    /\ call' = [call EXCEPT
                   !.fn = "raiseForResponse",
                   !.result = IF ShouldRaise(call.response)
                              THEN [threw |-> RaisedError(call.response), logged |-> <<>>]
                              ELSE [threw |-> NoError,
                                    logged |-> LoggedWarnings(call.response)]]
    /\ UNCHANGED <<sendVars, wf, chunker, credential, config>>

(***************************************************************************)
(* canonicalizeFormat; a string is the sequence of its characters           *)
(***************************************************************************)
MaxFormatLen == 4

Chars(cs) == [t |-> "string", cs |-> cs]

\* String.prototype.toLowerCase on the letters used
ToLowerCase(cs) ==
    LET lower == [c \in {"P", "D", "F", "H", "T", "M", "L"} |->
                    CASE c = "P" -> "p" [] c = "D" -> "d" [] c = "F" -> "f"
                      [] c = "H" -> "h" [] c = "T" -> "t" [] c = "M" -> "m"
                      [] c = "L" -> "l"]
    IN [k \in DOMAIN cs |-> IF cs[k] \in DOMAIN lower THEN lower[cs[k]] ELSE cs[k]]

IsWhiteSpace(c) == c \in {" ", "\t"}

\* String.prototype.trim: whitespace is removed at both ends
RECURSIVE TrimStart(_)
TrimStart(cs) == IF cs # <<>> /\ IsWhiteSpace(Head(cs)) THEN TrimStart(Tail(cs)) ELSE cs

RECURSIVE TrimEnd(_)
TrimEnd(cs) ==
    IF cs # <<>> /\ IsWhiteSpace(cs[Len(cs)]) THEN TrimEnd(SubSeq(cs, 1, Len(cs) - 1)) ELSE cs

Trim(cs) == TrimEnd(TrimStart(cs))

\* if (formatName.startsWith('.')) formatName = formatName.slice(1)
StripDot(cs) == IF cs # <<>> /\ Head(cs) = "." THEN Tail(cs) ELSE cs

\* canonicalizeFormat(formatName)
canonicalizeFormat(formatName) ==
    IF formatName = Undefined \/ formatName.cs = <<>>
    THEN Undefined
    ELSE LET out == StripDot(ToLowerCase(Trim(formatName.cs)))
         IN IF out = <<>> THEN Undefined ELSE Chars(out)

\* the arguments: undefined, every string over a letter in both cases, the dot
\* and the space up to MaxFormatLen characters, and the documented examples
FormatNames ==
    {Undefined}
      \cup { Chars(cs) : cs \in SeqsUpTo({"P", "p", ".", " "}, MaxFormatLen) }
      \cup { Chars(<<".", "P", "D", "F">>), Chars(<<" ", " ", "H", "T", "M", "L", " ">>),
             Chars(<<"\t", "p", "\t">>) }

\* canonicalizeFormat(x)
CallCanonicalize ==
    /\ call.fn = "new"
    /\ call' = [fn |-> "canonicalizeFormat", arg |-> call.arg,
                result |-> canonicalizeFormat(call.arg)]
    /\ UNCHANGED <<sendVars, wf, chunker, credential, config>>

\* canonicalizeFormat(canonicalizeFormat(x))
CallCanonicalizeAgain ==
    /\ call.fn = "canonicalizeFormat"
    /\ call' = [fn |-> "canonicalizeFormat twice", arg |-> call.arg, once |-> call.result,
                result |-> canonicalizeFormat(call.result)]
    /\ UNCHANGED <<sendVars, wf, chunker, credential, config>>

(***************************************************************************)
(* Credential, and the reads the client makes of it                        *)
(***************************************************************************)
MaxCredentialLen == 2

NonEmptyString_NoTrim(v) == v.t = "string" /\ v.cs # <<>>

\* the constructor's test negated: typeof v === 'string' && v.trim()
NonEmptyString(v) == v.t = "string" /\ Trim(v.cs) # <<>>

\* isValid(): Boolean(this._app && this._token)
isValid(c) == c._app.cs # <<>> /\ c._token.cs # <<>>

\* what a caller can pass as app or token
CredentialArgs ==
    {Undefined, Null, NumV(1)} \cup { Chars(cs) : cs \in SeqsUpTo({"a", " "}, MaxCredentialLen) }

\* a call on the credential made with (app, token)
CredentialCall(fn, result, threw) ==
    [fn |-> fn, app |-> call.app, token |-> call.token, result |-> result, threw |-> threw]

\* new Credential(app, token)
NewCredential ==
    /\ call.fn = "new"
    /\ IF ~NonEmptyString(call.app)
       THEN /\ call' = CredentialCall("constructor", Undefined,
                           Err("Error", 0, <<"Application ID must be a non-empty string">>))
            /\ UNCHANGED credential
       ELSE IF ~NonEmptyString(call.token)
       THEN /\ call' = CredentialCall("constructor", Undefined,
                           Err("Error", 0, <<"Security token must be a non-empty string">>))
            /\ UNCHANGED credential
       ELSE /\ call' = CredentialCall("constructor", Undefined, NoError)
            /\ credential' = [built |-> TRUE, _app |-> call.app, _token |-> call.token]
    /\ UNCHANGED <<sendVars, wf, chunker, config>>

\* get app()
GetApp ==
    /\ credential.built
    /\ call' = CredentialCall("app", credential._app, NoError)
    /\ UNCHANGED <<sendVars, wf, chunker, credential, config>>

\* get token()
GetToken ==
    /\ credential.built
    /\ call' = CredentialCall("token", credential._token, NoError)
    /\ UNCHANGED <<sendVars, wf, chunker, credential, config>>

\* isValid()
CallIsValid ==
    /\ credential.built
    /\ call' = CredentialCall("isValid", JsBool(isValid(credential)), NoError)
    /\ UNCHANGED <<sendVars, wf, chunker, credential, config>>

\* Interface.request of a client that holds the credential: the %app-id% field
\* and the Authorization header
ClientRequest ==
    /\ credential.built
    /\ call' = CredentialCall("request",
                    [appId |-> credential._app, authorization |-> <<"Bearer ", credential._token>>],
                    NoError)
    /\ UNCHANGED <<sendVars, wf, chunker, credential, config>>

(***************************************************************************)
(* Config: _overrides is a plain object of plain objects. A plain object is *)
(* the function of its own properties; it inherits those of Object.prototype*)
(***************************************************************************)
MaxUpdates == 2

\* {}
EmptyObject == [key \in {} |-> Null]

\* the state of Config when the module is loaded: no override, nothing assigned
\* to Object, no key named by an update, no update made
NoOverrides == [overrides |-> [section \in {} |-> EmptyObject], statics |-> EmptyObject,
                named |-> [p \in {} |-> Null], updates |-> 0]

DEFAULT_CONFIG ==
    [section \in {"api", "connectionSettings"} |->
        IF section = "api"
        THEN [key \in {"app", "token", "endpoint"} |->
                CASE key = "app" -> Str("free")
                  [] key = "token" -> Str("FREE-TOKEN")
                  [] key = "endpoint" -> Str("https://api.vertopal.com")]
        ELSE [key \in {"retries", "defaultTimeout", "longTimeout", "streamChunkSize"} |->
                CASE key = "retries" -> NumV(5)
                  [] key = "defaultTimeout" -> NumV(defaultTimeout)
                  [] key = "longTimeout" -> NumV(longTimeout)
                  [] key = "streamChunkSize" -> NumV(4096)]]

\* the sections, keys and values the caller uses
Sections == {"api", "custom", "constructor"}
Keys == {"app", "x", "toString"}
Values == {Str("v1"), Str("v2")}
Fallback == Str("fallback")

\* a member inherited from Object.prototype
Builtin(name) == [t |-> "builtin", name |-> name]

\* key in object: own or inherited
HasProperty(own, key) == key \in DOMAIN own \/ key \in DOMAIN ObjectPrototype

\* object[key]
GetProperty(own, key) ==
    IF key \in DOMAIN own THEN own[key]
    ELSE IF key \in DOMAIN ObjectPrototype THEN Builtin(key)
    ELSE Undefined

\* the own properties of root[section], where an inherited section is a member
\* of Object.prototype: `constructor` is Object, with the properties assigned
\* to it
SectionObject(cfg, root, section) ==
    IF section \in DOMAIN root THEN root[section]
    ELSE IF section = "constructor" THEN cfg.statics
    ELSE EmptyObject

\* section in root && root[section] && key in root[section]
Defines(cfg, root, section, key) ==
    /\ HasProperty(root, section)
    /\ HasProperty(SectionObject(cfg, root, section), key)

\* Config.get(section, key, fallback)
get(cfg, section, key, fallback) ==
    IF Defines(cfg, cfg.overrides, section, key)
    THEN GetProperty(SectionObject(cfg, cfg.overrides, section), key)
    ELSE IF Defines(cfg, DEFAULT_CONFIG, section, key)
    THEN GetProperty(SectionObject(cfg, DEFAULT_CONFIG, section), key)
    ELSE fallback

\* the arguments of update: some sections, each with some keys set to a value
UpdateArgs ==
    { [section \in S |-> [key \in K |-> v]] :
        S \in SUBSET Sections \ {{}}, K \in SUBSET Keys \ {{}}, v \in Values }

\* the (section, key) pairs an argument of update names
Named(arg) == { <<section, key>> : section \in DOMAIN arg, key \in Keys } \cap
              { p \in Sections \X Keys : p[2] \in DOMAIN arg[p[1]] }

\* Config.update(overrides): a section whose this._overrides[section] is falsy
\* gets a new object; Object.assign writes to this._overrides[section], which
\* for an inherited section is the inherited object
update(cfg, arg) ==
    LET created == { section \in DOMAIN arg : ~HasProperty(cfg.overrides, section) }
    IN [cfg EXCEPT
          !.overrides =
              [section \in DOMAIN cfg.overrides \cup created |->
                  IF section \notin DOMAIN arg THEN cfg.overrides[section]
                  ELSE IF section \in created THEN arg[section]
                  ELSE arg[section] @@ cfg.overrides[section]],
          !.statics =
              IF "constructor" \in DOMAIN arg /\ "constructor" \notin DOMAIN cfg.overrides
              THEN arg["constructor"] @@ cfg.statics ELSE cfg.statics,
          !.named = [p \in DOMAIN cfg.named \cup Named(arg) |->
                        IF p \in Named(arg) THEN arg[p[1]][p[2]] ELSE cfg.named[p]],
          !.updates = @ + 1]

\* Config.clear_overrides()
clear_overrides(cfg) ==
    [cfg EXCEPT !.overrides = NoOverrides.overrides, !.named = NoOverrides.named]

CallUpdate ==
    /\ config.updates < MaxUpdates
    /\ \E arg \in UpdateArgs :
          /\ config' = update(config, arg)
          /\ call' = [fn |-> "update", arg |-> arg]
    /\ UNCHANGED <<sendVars, wf, chunker, credential>>

CallClearOverrides ==
    /\ config' = clear_overrides(config)
    /\ call' = [fn |-> "clear_overrides"]
    /\ UNCHANGED <<sendVars, wf, chunker, credential>>

CallGet ==
    /\ \E section \in Sections, key \in Keys :
          call' = [fn |-> "get", section |-> section, key |-> key,
                   result |-> get(config, section, key, Fallback)]
    /\ UNCHANGED <<sendVars, wf, chunker, credential, config>>

(***************************************************************************)
(* Specifications                                                          *)
(***************************************************************************)
WfIdle == [i \in Insts |-> NewWf("absent")]
NoChunker == [pc |-> "none"]
NoCall == [fn |-> "none"]
NoCredential == [built |-> FALSE]

InitSend ==
    /\ retries \in 0..MaxRetries
    /\ attempt = 1
    /\ spc = "loop"
    /\ waits = <<>>
    /\ fetches = <<>>
    /\ outcome = Pending
    /\ sendArgs \in Requests
    /\ timers = <<>>
    /\ aborts = <<>>
    /\ credential = NoCredential
    /\ config = NoOverrides
    /\ wf = WfIdle
    /\ chunker = NoChunker
    /\ call = NoCall

NextSend ==
    \/ IssueFetch
    \/ LoopExit
    \/ FetchRejects
    \/ FetchResolvesRaw
    \/ FetchResolvesJson
    \/ FetchResolvesBadJson
    \/ BodyReadFails
    \/ DeadlineFires
    \/ BackoffElapses

SpecSend == InitSend /\ [][NextSend]_vars

\* one sendRequest call of uploadFile: the source stream is opened once
UploadStreams ==
    {<<>>, <<ByteArray(<<0, 1>>)>>, <<ByteArray(<<1>>), StringChunk("é")>>}

InitUpload ==
    /\ retries \in 0..MaxRetries
    /\ attempt = 1
    /\ spc = "loop"
    /\ waits = <<>>
    /\ fetches = <<>>
    /\ outcome = Pending
    /\ sendArgs = [endpoint |-> UploadFileEndpoint, timeout |-> NumV(longTimeout)]
    /\ timers = <<>>
    /\ aborts = <<>>
    /\ credential = NoCredential
    /\ config = NoOverrides
    /\ wf = WfIdle
    /\ chunker = NoChunker
    /\ \E stream \in UploadStreams, chunkSize \in {1, MaxChunkSize}, isNodeReadable \in BOOLEAN :
          call = UploadFile(stream, chunkSize, isNodeReadable)

NextUpload ==
    \/ IssueFetch
    \/ FormDataFails
    \/ LoopExit
    \/ FetchRejects
    \/ FetchResolvesRaw
    \/ FetchResolvesJson
    \/ FetchResolvesBadJson
    \/ BodyReadFails
    \/ DeadlineFires
    \/ BackoffElapses

SpecUpload == InitUpload /\ [][NextUpload]_vars

\* one sendRequest call under a configured retries value that may be negative;
\* every pending fetch settles (its deadline fires at the latest) and every
\* backoff timer fires
InitRetries ==
    /\ retries \in (0 - 1)..MaxRetries
    /\ attempt = 1
    /\ spc = "loop"
    /\ waits = <<>>
    /\ fetches = <<>>
    /\ outcome = Pending
    /\ sendArgs = [endpoint |-> ConvertFileEndpoint, timeout |-> Undefined]
    /\ timers = <<>>
    /\ aborts = <<>>
    /\ credential = NoCredential
    /\ config = NoOverrides
    /\ wf = WfIdle
    /\ chunker = NoChunker
    /\ call = NoCall

FairSpecRetries == InitRetries /\ [][NextSend]_vars /\ WF_vars(NextSend)

\* one StreamChunker.process call over a finite source
InitChunk ==
    /\ retries = 0
    /\ attempt = 1
    /\ spc = "loop"
    /\ waits = <<>>
    /\ fetches = <<>>
    /\ outcome = Pending
    /\ sendArgs = NoRequest
    /\ timers = <<>>
    /\ aborts = <<>>
    /\ credential = NoCredential
    /\ config = NoOverrides
    /\ wf = WfIdle
    /\ call = NoCall
    /\ \E stream \in SeqsUpTo(Elements, MaxElems), chunkSize \in 1..MaxChunkSize,
          isNodeReadable \in BOOLEAN :
          chunker = NewChunker(stream, chunkSize, isNodeReadable, FALSE)

NextChunk ==
    \/ NodeStreamYields
    \/ NodeStreamSlices
    \/ NodeStreamEnds
    \/ BrowserReadValue
    \/ BrowserSlices
    \/ BrowserReadDone

SpecChunk == InitChunk /\ [][NextChunk]_vars

\* StreamChunker.process over either kind of source and either kind of sink;
\* the elements the source delivers are kept for reference
InitLoops ==
    /\ retries = 0
    /\ attempt = 1
    /\ spc = "loop"
    /\ waits = <<>>
    /\ fetches = <<>>
    /\ outcome = Pending
    /\ sendArgs = NoRequest
    /\ timers = <<>>
    /\ aborts = <<>>
    /\ credential = NoCredential
    /\ config = NoOverrides
    /\ wf = WfIdle
    /\ call = NoCall
    /\ \E stream \in SeqsUpTo(Elements, MaxLoopElems), chunkSize \in 1..MaxChunkSize,
          isNodeReadable \in BOOLEAN, isWritable \in BOOLEAN :
          chunker = [elements |-> stream]
                       @@ NewChunker(stream, chunkSize, isNodeReadable, isWritable)

SpecLoops == InitLoops /\ [][NextChunk]_vars

\* the source keeps delivering and the loops keep running until process returns
FairSpecLoops == SpecLoops /\ WF_vars(NextChunk)

\* one ErrorWrapper over a decoded response
InitError ==
    /\ retries = 0
    /\ attempt = 1
    /\ spc = "loop"
    /\ waits = <<>>
    /\ fetches = <<>>
    /\ outcome = Pending
    /\ sendArgs = NoRequest
    /\ timers = <<>>
    /\ aborts = <<>>
    /\ credential = NoCredential
    /\ config = NoOverrides
    /\ wf = WfIdle
    /\ chunker = NoChunker
    /\ \E response \in WrappedResponses \cup WarningResponses \cup CodedResponses :
          call = NewWrapper(response)

NextError ==
    \/ CallHasError
    \/ CallGetError
    \/ CallHasWarning
    \/ CallGetWarnings
    \/ CallRaiseForResponse

SpecError == InitError /\ [][NextError]_vars

\* canonicalizeFormat applied once and twice to one argument
InitFormat ==
    /\ retries = 0
    /\ attempt = 1
    /\ spc = "loop"
    /\ waits = <<>>
    /\ fetches = <<>>
    /\ outcome = Pending
    /\ sendArgs = NoRequest
    /\ timers = <<>>
    /\ aborts = <<>>
    /\ credential = NoCredential
    /\ config = NoOverrides
    /\ wf = WfIdle
    /\ chunker = NoChunker
    /\ \E x \in FormatNames : call = [fn |-> "new", arg |-> x]

NextFormat ==
    \/ CallCanonicalize
    \/ CallCanonicalizeAgain

SpecFormat == InitFormat /\ [][NextFormat]_vars

\* one Credential: its construction, then any sequence of reads
InitCredential ==
    /\ retries = 0
    /\ attempt = 1
    /\ spc = "loop"
    /\ waits = <<>>
    /\ fetches = <<>>
    /\ outcome = Pending
    /\ sendArgs = NoRequest
    /\ timers = <<>>
    /\ aborts = <<>>
    /\ credential = NoCredential
    /\ config = NoOverrides
    /\ wf = WfIdle
    /\ chunker = NoChunker
    /\ \E app \in CredentialArgs, token \in CredentialArgs :
          call = [fn |-> "new", app |-> app, token |-> token]

NextCredential ==
    \/ NewCredential
    \/ GetApp
    \/ GetToken
    \/ CallIsValid
    \/ ClientRequest

SpecCredential == InitCredential /\ [][NextCredential]_vars

\* Config: any sequence of update, clear_overrides and get
InitConfig ==
    /\ retries = 0
    /\ attempt = 1
    /\ spc = "loop"
    /\ waits = <<>>
    /\ fetches = <<>>
    /\ outcome = Pending
    /\ sendArgs = NoRequest
    /\ timers = <<>>
    /\ aborts = <<>>
    /\ credential = NoCredential
    /\ config = NoOverrides
    /\ wf = WfIdle
    /\ chunker = NoChunker
    /\ call = NoCall

NextConfig ==
    \/ CallUpdate
    \/ CallClearOverrides
    \/ CallGet

SpecConfig == InitConfig /\ [][NextConfig]_vars

\* one workflow, created by Converter.convert
Init ==
    /\ retries = 0
    /\ attempt = 1
    /\ spc = "loop"
    /\ waits = <<>>
    /\ fetches = <<>>
    /\ outcome = Pending
    /\ sendArgs = NoRequest
    /\ timers = <<>>
    /\ aborts = <<>>
    /\ credential = NoCredential
    /\ config = NoOverrides
    /\ chunker = NoChunker
    /\ call = NoCall
    /\ wf = [i \in Insts |-> IF i = 1 THEN NewWf("unused") ELSE NewWf("absent")]

\* the steps that follow the settling of an awaited promise
Settle(i) ==
    \/ UploadReturns(i)
    \/ UploadFails(i)
    \/ ConvertReturns(i)
    \/ ConvertFails(i)
    \/ DoneProbeReturns(i)
    \/ DoneProbeFails(i)
    \/ WaitProbeReturns(i)
    \/ WaitProbeFails(i)
    \/ SleepElapses(i)
    \/ DownloadUrlReturns(i)
    \/ DownloadUrlFails(i)
    \/ DownloadGetReturns(i)
    \/ DownloadGetFails(i)

\* the calls of the caller
Call(i) ==
    \/ Convert(i)
    \/ SourceOpenFails(i)
    \/ Done(i)
    \/ Wait(i)
    \/ Successful(i)
    \/ Download(i)

Next == \E i \in Insts : Call(i) \/ Settle(i)

Spec == Init /\ [][Next]_vars

\* two Conversions of one Converter (one shared client): each is created, probed
\* with done() until its first status response, and asked to download; their
\* steps interleave at the awaits
InitTwo ==
    /\ retries = 0
    /\ attempt = 1
    /\ spc = "loop"
    /\ waits = <<>>
    /\ fetches = <<>>
    /\ outcome = Pending
    /\ sendArgs = NoRequest
    /\ timers = <<>>
    /\ aborts = <<>>
    /\ credential = NoCredential
    /\ config = NoOverrides
    /\ chunker = NoChunker
    /\ call = NoCall
    /\ wf = [i \in Insts |-> NewWf("unused")]

NextTwo ==
    \E i \in Insts :
        \/ Convert(i)
        \/ UploadReturns(i)
        \/ ConvertReturns(i)
        \/ ConvertFails(i)
        \/ wf[i].lastProbe = NoProbe /\ Done(i)
        \/ DoneProbeReturns(i)
        \/ DoneProbeFails(i)
        \/ Download(i)

SpecTwo == InitTwo /\ [][NextTwo]_vars

\* every awaited network call and sleep settles
FairSpec == Spec /\ \A i \in Insts : WF_vars(Settle(i))

(***************************************************************************)
(* Properties of sendRequest (SpecSend)                                    *)
(***************************************************************************)
\* attempts that ended in a transport failure, and attempts that succeeded
FailedKinds == {"rejected", "bodyFailed"}
SucceededKinds == {"json", "raw"}

\* C1: an envelope the Error Classifier reports as an error ends the call at
\* once: that attempt is the last one, no backoff wait follows it, and the
\* caller receives the mapped typed error of the classifier.
C1_ServiceErrorIsTerminal ==
    \A n \in DOMAIN fetches :
        fetches[n].kind = "serviceError" =>
            /\ n = Len(fetches)
            /\ Len(waits) = n - 1
            /\ spc = "threw"
            /\ outcome = Threw(fetches[n].err)

\* C2: with retries >= 1, when attempts 1..k fail in the transport (k < retries)
\* and attempt k+1 succeeds, the call makes exactly k+1 attempts, waits exactly
\* k times, the i-th wait lasting 2^i seconds, and returns what attempt k+1
\* produced.
C2_RetryThenSuccess ==
    \A k \in 0..MaxRetries :
        ( /\ retries >= 1
          /\ k < retries
          /\ k + 1 \in DOMAIN fetches
          /\ \A n \in 1..k : fetches[n].kind \in FailedKinds
          /\ fetches[k + 1].kind \in SucceededKinds )
        => /\ Len(fetches) = k + 1
           /\ waits = [n \in 1..k |-> (2 ^ n) * 1000]
           /\ spc = "returned"
           /\ outcome = Returned(fetches[k + 1].value)

\* retries = 3, attempts 1 and 2 failed, attempt 3 succeeded: two waits, 2s and 4s
C2_Witness ==
    /\ retries = 3
    /\ Len(fetches) = 3
    /\ fetches[1].kind \in FailedKinds
    /\ fetches[2].kind \in FailedKinds
    /\ fetches[3].kind = "json"
    /\ spc = "returned"
    /\ waits = <<2000, 4000>>

\* C3: with retries >= 1 and every attempt failing in the transport, the call
\* makes exactly `retries` attempts and `retries - 1` waits, none after the last
\* attempt, and then throws NetworkConnectionError quoting the cause of the last
\* failed attempt.
C3_AllAttemptsFail ==
    ( /\ retries >= 1
      /\ \A n \in DOMAIN fetches : fetches[n].kind \in FailedKinds \cup {"pending"} )
    => /\ Len(fetches) <= retries
       /\ Len(waits) <= retries - 1
       /\ Len(waits) <= Len(fetches)
       /\ spc # "returned"
       /\ (Len(fetches) = retries /\ fetches[retries].kind \in FailedKinds)
             => /\ spc = "threw"
                /\ Len(waits) = retries - 1
                /\ outcome = Threw(Err("NetworkConnectionError", retries,
                                       fetches[retries].err.text))
       /\ spc = "threw"
             => (Len(fetches) = retries /\ fetches[retries].kind \in FailedKinds)

\* retries = 3, three failed attempts with different causes, the call has thrown
C3_Witness ==
    /\ retries = 3
    /\ Len(fetches) = 3
    /\ \A n \in 1..3 : fetches[n].kind \in FailedKinds
    /\ fetches[2].err # fetches[3].err
    /\ spc = "threw"
    /\ outcome.error.cls = "NetworkConnectionError"
    /\ outcome.error.text = fetches[3].err.text
    /\ Len(waits) = 2

(***************************************************************************)
(* Properties of the Conversion workflow (Spec, FairSpec)                  *)
(***************************************************************************)
DownloadPaths == {"/download/url", "/download/url/get"}

\* C4: the remote calls of a workflow are ordered. Nothing but the upload is
\* sent before the upload has returned; the convert request carries the
\* connector the upload returned and mode async; a probe or a download-url
\* request is sent only after convert returned status running, and carries the
\* entity id convert returned; after a failed upload nothing is sent.
C4_CallsOrdered ==
    \A i \in Insts :
        LET w == wf[i] IN
        /\ ~w.uploadDone => w.inFlight.path \in {"none", "/upload/file"}
        /\ w.inFlight.path = "/convert/file" =>
              /\ w.uploadDone
              /\ w.uploadConnector \in UploadConnectors
              /\ w.inFlight.connector = w.uploadConnector
              /\ w.inFlight.mode = "async"
              /\ w.converted.status = "none"
        /\ w.inFlight.path \in {"/task/response", "/download/url"} =>
              /\ w.converted.status = "running"
              /\ w.converted.id \in TaskIds
              /\ w.inFlight.connector = w.converted.id
        /\ (w.pc = "failed" /\ ~w.uploadDone) => w.inFlight = NoReq

\* a probe in flight that carries the id t2 returned by convert
C4_Witness ==
    \E i \in Insts :
        /\ wf[i].inFlight = TaskResponseRequest("t2")
        /\ wf[i].converted = [status |-> "running", id |-> "t2"]
        /\ wf[i].uploadDone

\* C5: whatever the caller calls after init, a download request is in flight
\* only after some probe of the workflow observed task status completed.
C5_DownloadOnlyAfterCompleted ==
    \A i \in Insts :
        wf[i].inFlight.path \in DownloadPaths => wf[i].seenCompleted

\* C6: a convert response with a status other than running makes init throw
\* EntityStatusNotRunningError; the task connector stays unset, no request is
\* ever sent afterwards and the caller gets no handle.
C6_NotRunningGuard ==
    \A i \in Insts :
        LET w == wf[i] IN
        w.converted.status \notin {"none", "running"} =>
            /\ w.pc = "failed"
            /\ w.ret = Ret("init", "threw", "none", "EntityStatusNotRunningError")
            /\ w.convertConnector = "undefined"
            /\ w.inFlight = NoReq
            /\ ~w.handle

\* convert answered completed: init has thrown
C6_Witness ==
    \E i \in Insts :
        /\ wf[i].converted.status = "completed"
        /\ wf[i].ret.error = "EntityStatusNotRunningError"

AllNumbers(arr) == Len(arr) > 0 /\ \A k \in DOMAIN arr : arr[k].t = "number"

WaitReturned == Ret("wait", "returned", "void", "none")

\* C7: wait returns normally only when its last probe observed completed, and
\* it returns on the probe that observes completed; with intervals that are all
\* numbers it never ends with the interval error; after every sleep another
\* probe follows, also beyond the end of the interval sequence.
C7_WaitUntilCompleted ==
    /\ [](\A i \in Insts :
            wf[i].ret = WaitReturned => wf[i].lastProbe.entity = "completed")
    /\ [](\A i \in Insts :
            wf[i].pc = "waitSleep" => wf[i].lastProbe.entity # "completed")
    /\ [][\A i \in Insts :
            (wf[i].pc = "waitProbe" /\ wf'[i].pc # "waitProbe") =>
               /\ (wf'[i].lastProbe.entity = "completed"
                     /\ wf'[i].ret.error \notin CallFailures)
                      => wf'[i].ret = WaitReturned
               /\ wf'[i].ret = Ret("wait", "threw", "none", "Error")
                      => ~AllNumbers(wf[i].pollIntervals)]_vars
    /\ \A i \in Insts : (wf[i].pc = "waitSleep") ~> (wf[i].pc = "waitProbe")

\* wait returned after at least three probes
C7_Witness ==
    \E i \in Insts :
        /\ wf[i].ret = WaitReturned
        /\ wf[i].probes >= 3
        /\ wf[i].lastProbe.entity = "completed"

Min(a, b) == IF a < b THEN a ELSE b

\* C8: in wait, probes and sleeps alternate, starting with a probe; sleep
\* number k (from 0) follows probe number k, which did not observe completed,
\* and lasts intervals[min(k, len-1)] seconds, handed to sleepFn in ms; after
\* the probe that observes completed there is no sleep; the default sequence
\* is 10, 10, 15.
C8_ProbeSleepAlternation ==
    /\ SLEEP_PATTERN = <<NumV(10), NumV(10), NumV(15)>>
    /\ \A i \in Insts :
        LET w == wf[i]
            k == w.sleeps - 1
            iv == w.pollIntervals[Min(k, Len(w.pollIntervals) - 1) + 1]
        IN
        /\ w.pc = "waitSleep" =>
              /\ w.sleeps >= 1
              /\ w.probes = w.sleeps
              /\ w.inFlight = NoReq
              /\ w.lastProbe.entity # "completed"
              /\ Len(w.pollIntervals) >= 1
              /\ w.lastSleep = (IF iv.nan THEN NaN ELSE NumV(1000 * iv.n))
        /\ w.pc = "waitProbe" =>
              /\ w.probes = Sat(w.sleeps + 1)
              /\ w.inFlight.path = "/task/response"
        /\ w.ret = WaitReturned => w.probes = Sat(w.sleeps + 1)

\* the default sequence, past its end: the sleep lasts 15 s
C8_Witness ==
    \E i \in Insts :
        /\ wf[i].pc = "waitSleep"
        /\ wf[i].pollIntervals = <<NumV(10), NumV(10), NumV(15)>>
        /\ wf[i].sleeps >= 4
        /\ wf[i].lastSleep = NumV(15000)

\* a valid interval: a number that is not NaN and is positive
ValidPositive(v) == v.t = "number" /\ ~v.nan /\ v.n > 0

\* C9: wait never sleeps on an interval that is not a valid positive number: it
\* fails before sleeping.
C9_InvalidIntervalFails ==
    \A i \in Insts :
        wf[i].pc = "waitSleep" => ValidPositive(At(wf[i].pollIntervals, wf[i].step))

\* C10: a call of done sends exactly one probe and returns true exactly when the
\* entity status of its response is completed, whatever the conversion status.
C10_DoneIsTaskCompleted ==
    \A i \in Insts :
        LET w == wf[i] IN
        /\ w.pc = "doneProbe" =>
              (w.probes = 1 /\ w.inFlight = TaskResponseRequest(w.convertConnector))
        /\ (w.ret.op = "done" /\ w.ret.kind = "returned") =>
              /\ w.probes = 1
              /\ w.ret.value \in {"true", "false"}
              /\ w.ret.value = "true" <=> w.lastProbe.entity = "completed"

\* done returned true while the conversion failed: successful() is false
C10_Witness ==
    \E i \in Insts :
        /\ wf[i].ret = Ret("done", "returned", "true", "none")
        /\ wf[i].lastProbe.result = "failed"
        /\ ~successful(wf[i])

(***************************************************************************)
(* Properties of the status a workflow keeps (Spec)                        *)
(***************************************************************************)
\* the fields of Conversion a caller can observe or that later calls read
Fields(w) ==
    <<w.convertConnector, w.convertStatus, w.credits, w.sinkHasPath, w.sinkPath, w.handle>>

\* C11: successful() returns true iff the conversion-level status carried by
\* the most recent status probe equals 'successful'; it returns false before
\* any probe and when the most recent probe carried no inner result; it sends
\* no request and changes no field of the workflow.
C11_SuccessfulReadsLastProbe ==
    /\ [](\A i \in Insts :
            wf[i].ret.op = "successful" =>
                /\ wf[i].ret.kind = "returned"
                /\ wf[i].ret.value = Bool(wf[i].lastProbe.result = "successful")
                /\ wf[i].inFlight = NoReq
                /\ wf[i].pc = "idle")
    /\ [][\A i \in Insts :
            (wf[i].pc = "idle" /\ wf'[i].pc = "idle" /\ wf'[i].ret.op = "successful") =>
                Fields(wf'[i]) = Fields(wf[i])]_vars

\* successful() answered true after a probe, and false after a later probe
\* that carried no inner result
C11_Witness ==
    \E i \in Insts :
        /\ wf[i].ret = Ret("successful", "returned", "false", "none")
        /\ wf[i].lastProbe.entity = "completed"
        /\ wf[i].lastProbe.result = "absent"
        /\ wf[i].seenCompleted

\* C12: creditsUsed is undefined as long as no status probe has observed task
\* status 'completed'; once a probe observes 'completed' together with a
\* reported credit cost, creditsUsed equals that cost.
C12_CreditsOnlyAfterCompleted ==
    \A i \in Insts :
        /\ ~wf[i].seenCompleted => wf[i].credits = 0 - 1
        /\ (wf[i].lastProbe.entity = "completed" /\ wf[i].lastProbe.vcredits # 0 - 1) =>
              wf[i].credits = wf[i].lastProbe.vcredits

\* C13: once a status probe has observed task status 'completed', no later
\* operation of the workflow changes its conversion status or its credits.
C13_TerminalOnceCompleted ==
    [][\A i \in Insts :
          wf[i].seenCompleted =>
              /\ wf'[i].convertStatus = wf[i].convertStatus
              /\ wf'[i].credits = wf[i].credits]_vars

(***************************************************************************)
(* Properties of StreamChunker (SpecChunk)                                 *)
(***************************************************************************)
\* ceil(n / c) for c > 0
CeilDiv(n, c) == (n + c - 1) \div c

\* C14: for a finite byte source of N bytes, delivered as any sequence of
\* elements, and a chunk size C > 0, the chunks process() emitted, joined in
\* emission order, are the N source bytes; there are ceil(N/C) of them and
\* every chunk but possibly the last has length C.
C14_ChunksReproduceSource ==
    chunker.pc = "done" =>
        /\ Flatten(chunker.collector) = chunker.source
        /\ Len(chunker.collector) = CeilDiv(Len(chunker.source), chunker.chunkSize)
        /\ \A k \in 1..(Len(chunker.collector) - 1) :
              Len(chunker.collector[k]) = chunker.chunkSize

\* a source whose elements straddle the chunk boundaries and leave a short
\* last chunk
C14_Witness ==
    /\ chunker.pc = "done"
    /\ chunker.chunkSize = 2
    /\ Len(chunker.source) = 5
    /\ Len(chunker.collector) = 3
    /\ Len(chunker.collector[3]) = 1

\* C15: every chunk emitted before the source is exhausted has length
\* chunkSize; the buffer holds fewer than chunkSize bytes once a source
\* element has been handled; no chunk is empty or longer than chunkSize; at
\* most one chunk is shorter and it is the last; nothing is emitted for a
\* source of zero bytes.
C15_ChunkerInvariants ==
    chunker.pc \in {"read", "slice", "done"} =>
        /\ chunker.pc # "done" =>
              \A k \in 1..Len(chunker.collector) :
                  Len(chunker.collector[k]) = chunker.chunkSize
        /\ chunker.pc = "read" => Len(chunker.buffer) < chunker.chunkSize
        /\ \A k \in 1..Len(chunker.collector) :
              /\ Len(chunker.collector[k]) > 0
              /\ Len(chunker.collector[k]) <= chunker.chunkSize
              /\ Len(chunker.collector[k]) < chunker.chunkSize => k = Len(chunker.collector)
        /\ (chunker.pc = "done" /\ chunker.source = <<>>) => chunker.collector = <<>>

\* an element that fills the buffer to exactly chunkSize has been handled, and
\* a source of empty elements has been processed to the end
C15_Witness ==
    /\ chunker.pc = "read"
    /\ chunker.stream # <<>>
    /\ chunker.buffer = <<>>
    /\ Len(chunker.collector) = 1
    /\ chunker.chunkSize = 3

(***************************************************************************)
(* Properties of sendRequest: deadline, decoding, raw responses (SpecSend) *)
(***************************************************************************)
\* C16: the deadline of each HTTP attempt is the timeout the caller gave,
\* whenever one is given, for any endpoint; without one it is the long
\* timeout for /upload/file and /download/url/get and the default timeout for
\* every other endpoint. The operations that pass the default timeout
\* explicitly (convert among them) run under the default timeout.
C16_DeadlineSelection ==
    \A n \in 1..Len(timers) :
        timers[n] =
            IF sendArgs.timeout # Undefined THEN sendArgs.timeout
            ELSE IF NormalizeEndpoint(sendArgs.endpoint)
                        \in {<<"", "upload", "file">>, <<"", "download", "url", "get">>}
                 THEN NumV(300000)
                 ELSE NumV(30000)

\* C17: an attempt that receives a JSON content type with a body that does
\* not decode ends the call with InvalidJSONResponseError right after that
\* attempt: no further HTTP attempt and no backoff wait.
C17_DecodeFailureIsTerminal ==
    \A n \in 1..Len(fetches) :
        fetches[n].kind = "badjson" =>
            /\ n = Len(fetches)
            /\ spc = "threw"
            /\ outcome.kind = "threw"
            /\ outcome.error.cls = "InvalidJSONResponseError"
            /\ outcome.error.text = fetches[n].err.text
            /\ Len(waits) = n - 1

\* an undecodable body arrived on the first attempt of a call with retries left
C17_Witness ==
    /\ retries = 3
    /\ Len(fetches) = 1
    /\ fetches[1].kind = "badjson"
    /\ fetches[1].contentType = "application/json; charset=utf-8"
    /\ spc = "threw"
    /\ waits = <<>>

\* C18: an attempt that receives a response whose content type is not JSON
\* returns that response object unchanged on that attempt: the body is not
\* decoded, no error is raised from it, no retry or backoff follows.
C18_RawResponseReturned ==
    \A n \in 1..Len(fetches) :
        fetches[n].contentType \in {"application/octet-stream", ""} =>
            /\ fetches[n].kind = "raw"
            /\ fetches[n].err = NoError
            /\ fetches[n].value \in Responses
            /\ fetches[n].value.ct = fetches[n].contentType
            /\ n = Len(fetches)
            /\ spc = "returned"
            /\ outcome = Returned(fetches[n].value)
            /\ Len(waits) = n - 1

\* a binary response came back on the second attempt, after one backoff
C18_Witness ==
    /\ Len(fetches) = 2
    /\ fetches[1].kind = "rejected"
    /\ fetches[2].kind = "raw"
    /\ fetches[2].contentType = "application/octet-stream"
    /\ outcome = Returned(fetches[2].value)
    /\ Len(waits) = 1

(***************************************************************************)
(* Properties of ErrorWrapper (SpecError)                                  *)
(***************************************************************************)
\* the four candidate error paths, in priority order
CandidatePaths ==
    << <<>>, <<"error">>, <<"result", "error">>, <<"result", "output", "result", "error">> >>

RECURSIVE Resolves(_, _)
\* the values a path resolves to in v: none when a key is missing or a value
\* on the way is not an object
Resolves(v, path) ==
    IF path = <<>> THEN {v}
    ELSE IF v.t = "object" /\ Head(path) \in DOMAIN v.f
         THEN Resolves(v.f[Head(path)], Tail(path))
         ELSE {}

\* an object that has a code or a message member
HasCodeOrMessageField(v) == v.t = "object" /\ {"code", "message"} \cap DOMAIN v.f # {}

\* an object that has a code or a message member with a truthy value
HasCodeOrMessageValue(v) ==
    /\ v.t = "object"
    /\ \E k \in {"code", "message"} \cap DOMAIN v.f :
          v.f[k] \notin {Null, Str(""), NumV(0), NaN, JsBool(FALSE)}

\* the candidate paths of the inspected response that resolve to such an object
PathsWithField ==
    { i \in 1..4 : \E v \in Resolves(call.response, CandidatePaths[i]) : HasCodeOrMessageField(v) }
PathsWithValue ==
    { i \in 1..4 : \E v \in Resolves(call.response, CandidatePaths[i]) : HasCodeOrMessageValue(v) }

\* C19 (as stated): hasError is true iff at least one of the four candidate
\* paths resolves to an object that bears a code or a message field; missing
\* keys and non-object values on a path count as not found and never raise.
C19_HasErrorIffFieldPresent ==
    call.fn = "hasError" =>
        /\ call.result \in {JsBool(TRUE), JsBool(FALSE)}
        /\ call.result = JsBool(TRUE) <=> PathsWithField # {}

\* C19 (amended): hasError is true iff at least one of the four candidate
\* paths resolves to an object whose code or message has a truthy value;
\* missing keys and non-object values on a path count as not found and never
\* raise.
C19_HasErrorIffValuePresent ==
    call.fn = "hasError" =>
        /\ call.result \in {JsBool(TRUE), JsBool(FALSE)}
        /\ call.result = JsBool(TRUE) <=> PathsWithValue # {}

\* hasError answered true for a response whose only error object lies at the
\* deepest path and has only a message, below a null and a string elsewhere
C19_Witness ==
    /\ call.fn = "hasError"
    /\ call.result = JsBool(TRUE)
    /\ PathsWithValue = {4}
    /\ Resolves(call.response, <<"error">>) = {Null}
    /\ Resolves(call.response, <<"result", "error">>) = {Str("oops")}

\* the object at the first candidate path of a set of paths
FirstAt(paths) ==
    CHOOSE v \in Resolves(call.response,
                          CandidatePaths[CHOOSE i \in paths : \A j \in paths : i <= j]) : TRUE

\* C20 (as stated): getError returns the object at the first candidate path,
\* in priority order, that bears a code or a message field, and the empty
\* object iff hasError is false; with both `error` and `result.error` matching
\* it returns the object at `error`.
C20_GetErrorFirstFieldPath ==
    call.fn = "getError" =>
        /\ PathsWithField # {} => call.result = FirstAt(PathsWithField)
        /\ call.result = EmptyObj <=> ~hasError(call.response)
        /\ {2, 3} \subseteq PathsWithField =>
              call.result \in Resolves(call.response, <<"error">>)

\* C20 (amended): getError returns the object at the first candidate path, in
\* priority order, whose code or message has a truthy value, and the empty
\* object iff hasError is false; with both `error` and `result.error` matching
\* in that sense, and no such code or message at the root of the envelope, it
\* returns the object at `error`.
C20_GetErrorFirstValuePath ==
    call.fn = "getError" =>
        /\ PathsWithValue # {} => call.result = FirstAt(PathsWithValue)
        /\ PathsWithValue = {} => call.result = EmptyObj
        /\ call.result = EmptyObj <=> ~hasError(call.response)
        /\ ({2, 3} \subseteq PathsWithValue /\ 1 \notin PathsWithValue) =>
              call.result \in Resolves(call.response, <<"error">>)

\* error and result.error both hold an error object, and they differ
C20_Witness ==
    /\ call.fn = "getError"
    /\ PathsWithValue = {2, 3}
    /\ call.result = MkErr("E1", "m")
    /\ Resolves(call.response, <<"result", "error">>) = {MkErr("E2", "")}

(***************************************************************************)
(* Properties of warnings and of the error table (SpecError, SpecSend)     *)
(***************************************************************************)
\* the four warning paths, in order
WarningCandidates ==
    << <<"warning">>, <<"result", "warning">>, <<"result", "output", "warning">>,
       <<"result", "output", "result", "warning">> >>

\* the objects with a code or a message member at the warning paths of the
\* inspected response, one per path, in path order
WarningsWithField ==
    SelectSeq([i \in 1..4 |-> Resolves(call.response, WarningCandidates[i])],
              LAMBDA found : \E v \in found : HasCodeOrMessageField(v))

\* the same with a truthy code or message
WarningsWithValue ==
    SelectSeq([i \in 1..4 |-> Resolves(call.response, WarningCandidates[i])],
              LAMBDA found : \E v \in found : HasCodeOrMessageValue(v))

\* C21 (as stated): getWarnings returns every object bearing a code or a
\* message field found at any of the four warning paths, one entry per
\* matching path in path order, never only the first; it is non-empty iff
\* hasWarning is true.
C21_GetWarningsAllWithField ==
    call.fn = "getWarnings" =>
        /\ Len(call.result) = Len(WarningsWithField)
        /\ \A k \in 1..Len(call.result) : call.result[k] \in WarningsWithField[k]
        /\ call.result # <<>> <=> hasWarning(call.response)

\* C21 (amended): getWarnings returns every object whose code or message has a
\* truthy value found at any of the four warning paths, one entry per matching
\* path in path order, never only the first; it is non-empty iff hasWarning is
\* true.
C21_GetWarningsAllWithValue ==
    call.fn = "getWarnings" =>
        /\ Len(call.result) = Len(WarningsWithValue)
        /\ \A k \in 1..Len(call.result) : call.result[k] \in WarningsWithValue[k]
        /\ call.result # <<>> <=> hasWarning(call.response)

\* warnings at the first and at the last path, nothing usable between: both
\* are returned, in path order
C21_Witness ==
    /\ call.fn = "getWarnings"
    /\ call.result = <<MkErr("", "w2"), MkErr("W1", "w")>>
    /\ Resolves(call.response, <<"warning">>) = {MkErr("", "w2")}
    /\ Resolves(call.response, <<"result", "warning">>) = {Null}

\* an envelope bears a warning, and bears no error, in the sense of the
\* truthy code or message
BearsWarning(v) ==
    \E i \in 1..4 : \E x \in Resolves(v, WarningCandidates[i]) : HasCodeOrMessageValue(x)
BearsError(v) ==
    \E i \in 1..4 : \E x \in Resolves(v, CandidatePaths[i]) : HasCodeOrMessageValue(x)

\* C22: a JSON envelope that bears warnings at a warning path and no error at
\* any error path causes no failure: raiseForResponse returns, sendRequest
\* returns the decoded payload on that attempt without retry, and the warnings
\* are only logged.
C22_WarningsNeverFail ==
    \A n \in 1..Len(fetches) :
        (fetches[n].warned # Null /\ BearsWarning(fetches[n].warned)
            /\ ~BearsError(fetches[n].warned)) =>
            /\ fetches[n].kind = "json"
            /\ fetches[n].err = NoError
            /\ fetches[n].logged # <<>>
            /\ n = Len(fetches)
            /\ spc = "returned"
            /\ outcome = Returned(fetches[n].warned)
            /\ Len(waits) = n - 1

\* a payload with a warning came back on the second attempt and was returned
C22_Witness ==
    /\ Len(fetches) = 2
    /\ fetches[1].kind = "rejected"
    /\ fetches[2].kind = "json"
    /\ fetches[2].logged = <<MkErr("W1", "w")>>
    /\ outcome = Returned(fetches[2].warned)
    /\ Len(waits) = 1

\* the closed table of the service's error codes
TableCodes == DOMAIN ERROR_CODE_MAP

\* C23: for an envelope with an error raiseForResponse raises one failure
\* whose kind the error code determines through a closed table: every code of
\* the table has its own kind, different from the kind of every other code,
\* and every code that is not in the table, or a missing code, has the single
\* generic kind.
C23_ClosedErrorTable ==
    call.fn = "raiseForResponse" =>
        /\ \A c1, c2 \in TableCodes :
              c1 # c2 => (ERROR_CODE_MAP[c1] # ERROR_CODE_MAP[c2]
                          /\ ERROR_CODE_MAP[c1] # "APIException")
        /\ BearsError(call.response) =>
              LET code == Prop(getError(call.response), "code")
              IN call.result.threw.cls =
                    IF code.t = "string" /\ code.s \in TableCodes
                    THEN ERROR_CODE_MAP[code.s]
                    ELSE "APIException"

(***************************************************************************)
(* Properties of download                                                  *)
(***************************************************************************)
\* C24: download() on a completed conversion never returns normally without
\* having written the result bytes to the opened sink, whatever the service
\* answers to /download/url/get (a stream, a JSON body without error, a
\* response without body).
C24_DownloadDeliversOrRaises ==
    \A i \in Insts :
        (/\ wf[i].ret = Ret("download", "returned", "void", "none")
         /\ wf[i].lastProbe.entity = "completed")
        => wf[i].written /\ wf[i].openedPath # "none"

\* C25: the step that follows the download-url response sets the sink's path to
\* the server's filename iff useServerFilename is true and the sink has a path;
\* no other step changes the path; the sink is opened only later, at the path
\* this step has left.
C25_ServerFilenameAssignment ==
    [][\A i \in Insts :
          LET w == wf[i]
              v == wf'[i]
              afterUrl == w.pc = "downloadUrl" /\ v.pc = "downloadGet"
              assigns == afterUrl /\ w.useServerFilename /\ w.sinkHasPath
          IN /\ assigns => v.sinkPath \in ServerFilenames
             /\ ~assigns => v.sinkPath = w.sinkPath
             /\ afterUrl => w.openedPath = "none" /\ v.openedPath = "none"
             /\ (v.openedPath # w.openedPath /\ v.openedPath # "none")
                   => /\ w.pc = "downloadGet"
                      /\ v.openedPath = w.sinkPath
                      /\ (w.useServerFilename /\ w.sinkHasPath)
                            => v.openedPath \in ServerFilenames]_vars

\* a download with useServerFilename wrote to a sink opened at the server's name,
\* and one without it wrote to a sink with a path at the caller's name
C25_Witness ==
    /\ wf[1].ret = Ret("download", "returned", "void", "none")
    /\ wf[1].sinkHasPath
    /\ wf[1].written
    /\ wf[1].openedPath \in ServerFilenames

(***************************************************************************)
(* Properties of canonicalizeFormat                                        *)
(***************************************************************************)
\* C26: canonicalizeFormat is idempotent on every string over letters, dots and
\* whitespace and on undefined, and maps ".PDF" to "pdf", "  HTML " to "html"
\* and undefined to undefined.
C26_CanonicalizeIdempotent ==
    /\ call.fn = "canonicalizeFormat twice" => call.result = call.once
    /\ call.fn = "canonicalizeFormat" =>
          /\ call.arg = Chars(<<".", "P", "D", "F">>) => call.result = Chars(<<"p", "d", "f">>)
          /\ call.arg = Chars(<<" ", " ", "H", "T", "M", "L", " ">>)
                => call.result = Chars(<<"h", "t", "m", "l">>)
          /\ call.arg = Undefined => call.result = Undefined

(***************************************************************************)
(* Properties of Credential                                                *)
(***************************************************************************)
\* a string with a character that is not whitespace
HasVisibleCharacter(v) ==
    v.t = "string" /\ \E k \in DOMAIN v.cs : ~IsWhiteSpace(v.cs[k])

\* C27: the constructor throws iff app or token is not a string, is empty or
\* is whitespace-only, and then no Credential exists; a Credential that exists
\* holds the constructor's app and token, both non-empty, after every read by
\* its getters, isValid and a client's requests; the getters return them and
\* isValid() is true.
C27_CredentialNonEmptyImmutable ==
    /\ call.fn # "new" =>
          /\ credential.built <=> (HasVisibleCharacter(call.app) /\ HasVisibleCharacter(call.token))
          /\ call.fn = "constructor" => (call.threw # NoError <=> ~credential.built)
    /\ credential.built =>
          /\ credential._app = call.app /\ credential._token = call.token
          /\ credential._app.cs # <<>> /\ credential._token.cs # <<>>
          /\ call.fn = "app" => call.result = call.app
          /\ call.fn = "token" => call.result = call.token
          /\ call.fn = "isValid" => call.result = JsBool(TRUE)
          /\ call.fn = "request" =>
                call.result = [appId |-> call.app, authorization |-> <<"Bearer ", call.token>>]

\* a Credential was built from a padded app, and its getter returns the padded
\* value
C27_Witness ==
    /\ credential.built
    /\ call.fn = "app"
    /\ call.app = Chars(<<" ", "a">>)
    /\ call.result = Chars(<<" ", "a">>)

(***************************************************************************)
(* Properties of interleaved workflows                                     *)
(***************************************************************************)
\* the Conversion fields the claim names
OwnState(w) == <<w.convertConnector, w.convertStatus, w.credits>>

C29_DeadlinePerAttempt ==
    /\ Len(aborts) = Len(fetches) /\ Len(timers) = Len(fetches)
    /\ \A n \in DOMAIN aborts :
          /\ aborts[n].timer = "armed" => (n = Len(fetches) /\ fetches[n].kind = "pending")
          /\ fetches[n].kind = "pending"
                => /\ aborts[n] = [timer |-> "armed", aborted |-> FALSE]
                   /\ timers[n] = TimeoutMs(sendArgs.timeout, NormalizeEndpoint(sendArgs.endpoint))
          /\ aborts[n].aborted <=> fetches[n].err.cls = "AbortError"
          /\ fetches[n].err.cls = "AbortError"
                => /\ fetches[n].kind = "rejected"
                   /\ n < retries => (Len(waits) >= n /\ waits[n] = (2 ^ n) * 1000)
                   /\ n >= retries
                         => (outcome.kind = "threw"
                             /\ outcome.error.cls = "NetworkConnectionError")

\* the deadline aborted the first attempt, the second attempt is pending under
\* a fresh timer and its controller is not aborted
C29_Witness ==
    /\ Len(fetches) = 2
    /\ fetches[1].err.cls = "AbortError"
    /\ aborts[1] = [timer |-> "fired", aborted |-> TRUE]
    /\ fetches[2].kind = "pending"
    /\ aborts[2] = [timer |-> "armed", aborted |-> FALSE]
    /\ timers[2] = timers[1]

(***************************************************************************)
(* Properties of Config                                                    *)
(***************************************************************************)
\* what get(section, key, fallback) is to return: the value an update named
\* since the last clear_overrides, else the default, else the fallback
Expected(cfg, section, key) ==
    IF <<section, key>> \in DOMAIN cfg.named THEN cfg.named[<<section, key>>]
    ELSE IF section \in DOMAIN DEFAULT_CONFIG /\ key \in DOMAIN DEFAULT_CONFIG[section]
    THEN DEFAULT_CONFIG[section][key]
    ELSE Fallback

\* C30: get returns the value most recently set by an update since the last
\* clear_overrides, otherwise the default, otherwise the fallback; an update
\* changes what get returns only for the keys it names; after clear_overrides
\* get returns the default or the fallback for every key.
C30_OverrideDefaultFallback ==
    /\ [](call.fn = "get" => call.result = Expected(config, call.section, call.key))
    /\ [][\A section \in Sections, key \in Keys :
             /\ (call'.fn = "update" /\ <<section, key>> \notin Named(call'.arg))
                   => get(config', section, key, Fallback) = get(config, section, key, Fallback)
             /\ call'.fn = "clear_overrides"
                   => get(config', section, key, Fallback)
                        = Expected(NoOverrides, section, key)]_vars

(***************************************************************************)
(* Properties of StreamChunker: boundaries, the two loops, termination     *)
(***************************************************************************)
\* the chunks of size c of the byte sequence bytes, the last one shorter when c
\* does not divide its length
Rechunk(bytes, c) ==
    [k \in 1..CeilDiv(Len(bytes), c) |->
        SubSeq(bytes, (k - 1) * c + 1, IF k * c < Len(bytes) THEN k * c ELSE Len(bytes))]

\* the bytes of the elements a source delivers
Content(elements) == Flatten([k \in 1..Len(elements) |-> BufferFrom(elements[k])])

\* C31: the chunks emitted are a function of the byte content and the chunk
\* size alone, whatever elements the source split the content into (empty
\* ones and ones longer than the chunk size included), and as many bytes are
\* emitted as were consumed.
C31_BoundariesIndependentOfSource ==
    chunker.pc = "done" =>
        /\ chunker.collector = Rechunk(Content(chunker.elements), chunker.chunkSize)
        /\ Len(Flatten(chunker.collector)) = Len(Content(chunker.elements))

\* a source with an empty element and an element longer than the chunk size
\* has been processed into several chunks
C31_Witness ==
    /\ chunker.pc = "done"
    /\ chunker.chunkSize = 1
    /\ \E k \in DOMAIN chunker.elements : BufferFrom(chunker.elements[k]) = <<>>
    /\ \E k \in DOMAIN chunker.elements : Len(BufferFrom(chunker.elements[k])) > chunker.chunkSize
    /\ Len(chunker.collector) = 2

\* the bytes of the elements the loop has taken from the source so far
Consumed == Content(SubSeq(chunker.elements, 1, Len(chunker.elements) - Len(chunker.stream)))

\* the chunks of size c that bytes fills completely, and the bytes left over
FullChunks(bytes, c) == SubSeq(Rechunk(bytes, c), 1, Len(bytes) \div c)
Remainder(bytes, c) == SubSeq(bytes, (Len(bytes) \div c) * c + 1, Len(bytes))

\* C36: the async-iteration loop and the getReader loop, with an array or a
\* writable sink, pass through the same states: between two source elements
\* the sink holds the full chunks of the bytes consumed and the buffer the
\* rest, inside the slicing loop sink and buffer together are the bytes
\* consumed, and at the end the sink holds the chunks of the whole content;
\* none of this depends on the kind of loop or of sink.
C36_LoopsAndSinksEquivalent ==
    /\ chunker.pc = "read" =>
          /\ chunker.collector = FullChunks(Consumed, chunker.chunkSize)
          /\ chunker.buffer = Remainder(Consumed, chunker.chunkSize)
    /\ chunker.pc = "slice" =>
          /\ Flatten(chunker.collector) \o chunker.buffer = Consumed
          /\ \A k \in DOMAIN chunker.collector :
                chunker.collector[k] = Rechunk(Consumed, chunker.chunkSize)[k]
    /\ chunker.pc = "done" =>
          /\ chunker.stream = <<>>
          /\ chunker.collector = Rechunk(Consumed, chunker.chunkSize)

\* the getReader loop has written to a writable sink the two chunks of a
\* source that delivered a string and a byte array
C36_Witness ==
    /\ chunker.pc = "done"
    /\ ~chunker.isNodeReadable
    /\ chunker.isWritable
    /\ \E k \in DOMAIN chunker.elements : chunker.elements[k].t = "string"
    /\ chunker.chunkSize = 2
    /\ Len(chunker.collector) = 2

\* C37: every turn of the inner slicing loop strictly shortens the buffer, and
\* process reaches its end with the source exhausted, for every finite source
\* and every chunk size of at least 1.
C37_ProcessTerminates ==
    /\ [][chunker.pc = "slice" => Len(chunker'.buffer) < Len(chunker.buffer)]_vars
    /\ <>(chunker.pc = "done" /\ chunker.stream = <<>>)

\* process has returned after the inner loop ran twice on one source element
C37_Witness ==
    /\ chunker.pc = "done"
    /\ chunker.chunkSize = 1
    /\ Len(chunker.elements) = 1
    /\ Len(chunker.collector) = 2

(***************************************************************************)
(* Properties of status probes                                             *)
(***************************************************************************)
\* C32: a probe answered without inner result ends in no failure of the probe
\* and leaves convertStatus undefined; after an answered probe wait returns
\* iff the task status of that answer is completed, and otherwise goes on to
\* the next interval, whatever the conversion status and whether or not the
\* inner result is present.
C32_TaskStatusAloneDecides ==
    [][\A i \in Insts :
          LET w == wf[i]
              v == wf'[i]
              answered == /\ w.pc \in {"waitProbe", "doneProbe"}
                          /\ v.pc # w.pc
                          /\ v.ret.error \notin CallFailures
              interval == At(w.pollIntervals, w.step)
          IN answered =>
               /\ v.lastProbe.result = "absent" =>
                     /\ v.convertStatus = "undefined"
                     /\ w.pc = "doneProbe" => v.ret.kind = "returned"
                     /\ v.ret.kind = "threw" => ~IsNumber(interval)
               /\ w.pc = "waitProbe" =>
                     /\ v.ret = WaitReturned <=> v.lastProbe.entity = "completed"
                     /\ v.lastProbe.entity # "completed" =>
                           IF IsNumber(interval) THEN v.pc = "waitSleep"
                           ELSE v.ret = Ret("wait", "threw", "none", "Error")]_vars

\* wait goes on after a probe without inner result that followed a probe with
\* one: the conversion status is undefined again
C32_Witness ==
    /\ wf[1].pc = "waitSleep"
    /\ wf[1].probes >= 2
    /\ wf[1].lastProbe.result = "absent"
    /\ wf[1].lastProbe.entity = "running"
    /\ wf[1].convertStatus = "undefined"
    /\ wf[1].credits = 2

(***************************************************************************)
(* Properties of canonical formats                                         *)
(***************************************************************************)
\* a canonical format: not empty, no whitespace at either end, no upper-case
\* letter, no leading dot
IsCanonical(v) ==
    /\ v.t = "string"
    /\ v.cs # <<>>
    /\ ~IsWhiteSpace(v.cs[1]) /\ ~IsWhiteSpace(v.cs[Len(v.cs)])
    /\ v.cs = ToLowerCase(v.cs)
    /\ v.cs[1] # "."

SourceBytes == Content(call.source)

ProbeCallErrors ==
    {"InvalidCredentialError", "InvalidJSONResponseError", "NetworkConnectionError"}

ProbeFields(w) == <<w.convertStatus, w.credits, w.convertConnector>>

\* C35: a status probe whose task-response call fails leaves the conversion
\* status, the credits and the task connector as they were; the status and the
\* credits change only in a step that received a probe's response, to what
\* that response carries, and no probe changes the connector.
C35_FailedProbeChangesNothing ==
    [][\A i \in Insts :
          LET w == wf[i]
              v == wf'[i]
              probing == w.pc \in {"waitProbe", "doneProbe"}
          IN /\ (probing /\ v.ret.kind = "threw" /\ v.ret.error \in ProbeCallErrors)
                   => ProbeFields(v) = ProbeFields(w)
             /\ <<v.convertStatus, v.credits>> # <<w.convertStatus, w.credits>>
                   => /\ probing
                      /\ v.lastProbe \in ProbeResponses
                      /\ v.convertStatus = StatusAfter(v.lastProbe, w.convertStatus)
                      /\ v.credits = CreditsAfter(v.lastProbe, w.credits)
             /\ probing => v.convertConnector = w.convertConnector]_vars

\* a probe failed on a transport error after an earlier probe had set the
\* status and the credits
C35_Witness ==
    /\ wf[1].ret = Ret("done", "threw", "none", "NetworkConnectionError")
    /\ wf[1].convertStatus = "successful"
    /\ wf[1].credits = 2
    /\ wf[1].convertConnector = "t1"

(***************************************************************************)
(* C38                                                                     *)
(***************************************************************************)
Max(a, b) == IF a > b THEN a ELSE b

Terminated == spc \in {"returned", "threw"}

\* C38: for every retries value R one sendRequest call makes at most max(R, 0)
\* HTTP attempts and ends with a result or a failure; with R <= 0 it makes no
\* attempt and fails with NetworkConnectionError.
C38_AttemptsBoundedAndTerminates ==
    /\ [](Len(fetches) <= Max(retries, 0))
    /\ <>Terminated
    /\ [](Terminated => outcome.kind \in {"returned", "threw"})
    /\ retries <= 0 => <>(/\ spc = "threw"
                          /\ fetches = <<>>
                          /\ outcome.error.cls = "NetworkConnectionError")

\* a negative retries value: the call has failed without any attempt
C38_Witness ==
    /\ retries < 0
    /\ spc = "threw"
    /\ fetches = <<>>
    /\ outcome = Threw(Err("NetworkConnectionError", 0,
                            <<Str("Request failed without exception.")>>))

(***************************************************************************)
(* C39                                                                     *)
(***************************************************************************)
\* the code and the message a failure raised for error object v carries
CarriedText(v) ==
    << IF "code" \in DOMAIN v.f /\ v.f["code"] # Null THEN v.f["code"]
       ELSE Str("UNKNOWN_ERROR"),
       IF "message" \in DOMAIN v.f /\ v.f["message"] # Null THEN v.f["message"]
       ELSE Str("No error message available.") >>

NestedErrorBearsField ==
    \E v \in Resolves(call.response, <<"error">>) : HasCodeOrMessageField(v)

RootWins ==
    /\ call.fn = "hasError" => call.result = JsBool(TRUE)
    /\ call.fn = "getError" => call.result = call.response
    /\ call.fn = "raiseForResponse" =>
          /\ call.result.threw # NoError
          /\ call.result.threw.text = CarriedText(call.response)

\* C39 (as stated): when the envelope root bears a code or message field and
\* the nested `error` object bears one too, the envelope is an error, getError
\* returns the root and the raised failure carries the root's code and message.
C39_RootFieldBeforeNested ==
    (HasCodeOrMessageField(call.response) /\ NestedErrorBearsField) => RootWins

\* C39 (amended): when the envelope root bears a code or message with a truthy
\* value and the nested `error` object bears a code or message field, the
\* envelope is an error, getError returns the root and the raised failure
\* carries the root's code and message.
C39_RootValueBeforeNested ==
    (HasCodeOrMessageValue(call.response) /\ NestedErrorBearsField) => RootWins

\* a failure raised for a root with a code only, above a complete nested error
C39_Witness ==
    /\ call.fn = "raiseForResponse"
    /\ Resolves(call.response, <<"error">>) = {MkErr("E1", "m")}
    /\ Resolves(call.response, <<"code">>) = {Str("R1")}
    /\ call.result.threw.text = <<Str("R1"), Str("No error message available.")>>

====
